---- MODULE Spec2Model ----
(***************************************************************************)
(* Knowledge-graph builder: the canonical store (schema.sql + queries.ts), *)
(* EntityExtractorAgent, RelationshipMapperAgent and AgentCoordinator.     *)
(*                                                                         *)
(* Spec      : concurrent callers of EntityExtractorAgent.execute and      *)
(*             RelationshipMapperAgent.execute over one shared store; one  *)
(*             step per awaited store or oracle call.                      *)
(* SpecBatch : AgentCoordinator.processPapersBatch over a PQueue, one step *)
(*             per pipeline stage.                                         *)
(* SpecWalk, SpecValidate, SpecExtract, SpecMap, SpecTask, SpecNormalize,  *)
(* SpecChunk and SpecRead each run one agent or helper on its own; every   *)
(* one is introduced where its actions are defined.                        *)
(*                                                                         *)
(* Confidences are integers in hundredths (0.5 is 50, 1 is 100).  Names    *)
(* are sequences of one-character strings; a description is modelled by    *)
(* its length, which is all the code reads of it.                          *)
(***************************************************************************)
EXTENDS Integers, Sequences, FiniteSets, TLC

VARIABLES papers, rows, links, improves, wk, runs, faults,
          units, settled, batch, registered, extractFails, throwOnTimeout, exitCode,
          walk, graph, report, ex, mp, task, norm, chunk, rd

storeVars == <<papers, rows, links, improves>>
agentVars == <<wk, runs, faults>>
batchVars == <<units, settled, batch, registered, extractFails, throwOnTimeout, exitCode>>
walkVars == <<walk, graph>>
runVars == <<ex, mp, task>>
checkVars == <<report, runVars>>
helperVars == <<norm, chunk>>
vars == <<papers, rows, links, improves, wk, runs, faults,
          units, settled, batch, registered, extractFails, throwOnTimeout, exitCode,
          walk, graph, report, ex, mp, task, norm, chunk, rd>>

(***************************************************************************)
(* Bounds of the model.                                                    *)
(***************************************************************************)
\* entities (concepts, methods, datasets) one oracle answer carries
MaxEntities == 2
\* agent runs (execute calls) started in one behaviour
MaxRuns == 2
\* store calls that end in a transport error in one behaviour
MaxFaults == 1
\* papers submitted to one processPapersBatch call
BatchSize == 5
\* units of one batch that exceed the per-unit timeout
MaxTimeouts == 1
\* largest limit a traversal is started with
MaxLimit == 3

Workers == {"w1", "w2"}
Kinds == {"concept", "method", "dataset"}

\* ids of the rows of table papers, and an id that is no row of it
PaperIds == {"p1", "p2"}
GhostPaper == "p0"

NoRow == [id |-> 0]

\* no traversal running, no citation graph, no validation report
IdleWalk == [pc |-> "idle"]
NoGraph == [refs |-> <<>>, cites |-> <<>>, count |-> <<>>]
NoReport == [ran |-> FALSE]
\* no single extractor run, mapper run, task, helper call or reader run under
\* observation
NoRun == [pc |-> "idle"]

(***************************************************************************)
(* normalizeEntityName (utils/helpers.ts).                                 *)
(***************************************************************************)
ToLowerCase(c) ==
  CASE c = "G" -> "g"
    [] c = "S" -> "s"
    [] c = "N" -> "n"
    [] OTHER -> c

\* [a-z0-9]
IsAlnum_WithHyphen(c) == c \in {"g", "s", "n", "3", "-"}
IsAlnum(c) == c \in {"g", "s", "n", "3"}

IsSpace(c) == c = " "

RECURSIVE TrimStart(_)
TrimStart(s) ==
  IF s # <<>> /\ IsSpace(Head(s)) THEN TrimStart(Tail(s)) ELSE s

RECURSIVE TrimEnd(_)
TrimEnd(s) ==
  IF s # <<>> /\ IsSpace(s[Len(s)]) THEN TrimEnd(SubSeq(s, 1, Len(s) - 1)) ELSE s

\* .replace(/[^a-z0-9]+/g, '-')
RECURSIVE ReplaceRuns(_, _)
ReplaceRuns(s, inRun) ==
  IF s = <<>> THEN <<>>
  ELSE IF IsAlnum(Head(s)) THEN <<Head(s)>> \o ReplaceRuns(Tail(s), FALSE)
  ELSE IF inRun THEN ReplaceRuns(Tail(s), TRUE)
  ELSE <<"-">> \o ReplaceRuns(Tail(s), TRUE)

\* .replace(/^-+|-+$/g, '')
RECURSIVE StripHyphens(_)
StripHyphens(s) ==
  IF s # <<>> /\ Head(s) = "-" THEN StripHyphens(Tail(s))
  ELSE IF s # <<>> /\ s[Len(s)] = "-" THEN StripHyphens(SubSeq(s, 1, Len(s) - 1))
  ELSE s

normalizeEntityName(name) ==
  StripHyphens(ReplaceRuns(TrimEnd(TrimStart([i \in 1..Len(name) |-> ToLowerCase(name[i])])), FALSE))

(***************************************************************************)
(* The canonical store: tables of schema.sql behind database/queries.ts.   *)
(*   rows[k]  : concepts, methods, datasets                                *)
(*   links[k] : paper_introduces_concept, paper_uses_method,               *)
(*              paper_evaluates_on_dataset                                 *)
(*   improves : concept_improves_concept                                   *)
(* Ids are uuid_generate_v4() values; the model numbers the rows of a      *)
(* table in insertion order (no row is ever deleted).                      *)
(***************************************************************************)
NextId(table) == Cardinality(table) + 1

\* CHECK (confidence >= 0 AND confidence <= 1)
ConfidenceCheck_Dropped(c) == TRUE
ConfidenceCheck(c) == c >= 0 /\ c <= 100

\* REFERENCES papers(id)
PaperExists_Unchecked(p) == TRUE
PaperExists(p) == p \in papers

\* UNIQUE(normalized_name) of concepts and methods, name UNIQUE of datasets
KeyTaken_NoConstraint(kind, key) == FALSE
KeyTaken(kind, key) == \E r \in rows[kind] : r.key = key

\* UNIQUE(paper_id, concept_id | method_id | dataset_id)
LinkTaken_NoConstraint(kind, p, e) == FALSE
LinkTaken(kind, p, e) == \E l \in links[kind] : l.paper_id = p /\ l.entity_id = e

\* CHECK (improvement_type IN ('speed', 'quality', 'generalization', 'simplicity'))
ImprovementTypes == {"speed", "quality", "generalization", "simplicity"}

\* getConceptByName / getMethodByName / getDatasetByName: .eq(...).single()
\* gives an error, hence null, unless exactly one row matches, and null on
\* any other error (ok = FALSE) as well.
GetByName_AnyRow(kind, key, ok) ==
  IF ok /\ rows[kind] # {} THEN CHOOSE r \in rows[kind] : TRUE ELSE NoRow
GetByName(kind, key, ok) ==
  LET m == {r \in rows[kind] : r.key = key}
  IN IF ok /\ Cardinality(m) = 1 THEN CHOOSE r \in m : TRUE ELSE NoRow

\* insertConcept / insertMethod / insertDataset: the error the insert ends
\* with ("none": the row is inserted and returned).
InsertError(kind, ent, key, paperId, ok) ==
  IF ~ok THEN "io"
  ELSE IF kind = "concept" /\ ~ConfidenceCheck(ent.confidence) THEN "check"
  ELSE IF KeyTaken(kind, key) THEN "unique"
  ELSE IF ~PaperExists(paperId) THEN "fk"
  ELSE "none"

NewRow(kind, ent, key, paperId) ==
  IF kind = "concept"
  THEN [id |-> NextId(rows[kind]), name |-> ent.name, key |-> key,
        description |-> ent.description, provenance |-> paperId,
        confidence |-> ent.confidence]
  ELSE [id |-> NextId(rows[kind]), name |-> ent.name, key |-> key,
        description |-> ent.description, provenance |-> paperId]

\* linkPaperToConcept / linkPaperToMethod / linkPaperToDataset
LinkError(kind, paperId, entityId, ent, ok) ==
  IF ~ok THEN "io"
  ELSE IF kind = "concept" /\ ~ConfidenceCheck(ent.confidence) THEN "check"
  ELSE IF LinkTaken(kind, paperId, entityId) THEN "unique"
  ELSE IF ~PaperExists(paperId) \/ ~(\E r \in rows[kind] : r.id = entityId) THEN "fk"
  ELSE "none"

NewLink(kind, paperId, entityId, ent) ==
  IF kind = "concept"
  THEN [id |-> NextId(links[kind]), paper_id |-> paperId, entity_id |-> entityId,
        confidence |-> ent.confidence]
  ELSE [id |-> NextId(links[kind]), paper_id |-> paperId, entity_id |-> entityId]

\* createConceptImprovement
ImprovementError(n, o, type, conf, ok) ==
  IF ~ok THEN "io"
  ELSE IF type \notin ImprovementTypes \/ ~ConfidenceCheck(conf) THEN "check"
  ELSE IF \E e \in improves : e.new_concept = n /\ e.old_concept = o THEN "unique"
  ELSE IF ~(\E r \in rows["concept"] : r.id = n) \/ ~(\E r \in rows["concept"] : r.id = o)
       THEN "fk"
  ELSE "none"

NewImprovement(n, o, type, conf) ==
  [id |-> NextId(improves), new_concept |-> n, old_concept |-> o,
   improvement_type |-> type, confidence |-> conf]

(***************************************************************************)
(* The LLM oracle: what extractStructuredData may return.                  *)
(***************************************************************************)
\* ExtractedConcept values the oracle may put in an answer
ConceptPool ==
  { [name |-> <<"G", "S">>, description |-> 25, confidence |-> 90],
    [name |-> <<"g", "s", " ">>, description |-> 5, confidence |-> 120],
    [name |-> <<"N">>, description |-> 25, confidence |-> 150],
    [name |-> <<"n">>, description |-> 5, confidence |-> 60],
    [name |-> <<"3">>, description |-> 0, confidence |-> -10] }

\* ExtractedMethod and ExtractedDataset values
MethodPool == { [name |-> <<"S">>, description |-> 15, confidence |-> 90] }

DatasetPool == { [name |-> <<"N">>, description |-> 25] }

SeqsUpTo(S, n) == UNION { [1..k -> S] : k \in 0..n }

\* the answers that carry at most MaxEntities entities
OracleAnswers ==
  { a \in [concepts : SeqsUpTo(ConceptPool, MaxEntities),
           methods  : SeqsUpTo(MethodPool, MaxEntities),
           datasets : SeqsUpTo(DatasetPool, MaxEntities)] :
      Len(a.concepts) + Len(a.methods) + Len(a.datasets) <= MaxEntities }

EmptyEntities == [concepts |-> <<>>, methods |-> <<>>, datasets |-> <<>>]

\* classifyRelationship answers (llm/prompts.ts); "" is a missing field
RelationshipTypes == {"improves_on", "extends", "uses", "evaluates", "none"}

ClassifyAnswers ==
  [has_relationship : BOOLEAN, relationship_type : RelationshipTypes,
   improvement_category : {"", "speed", "faster"}, confidence : {-10, 0, 85, 150}]

(***************************************************************************)
(* EntityExtractorAgent                                                    *)
(***************************************************************************)
\* Pass 2 for one concept or method: a hit rebinds name and normalized_name
disambiguateOne(kind, e, miss) ==
  LET normalized == normalizeEntityName(e.name)
      existing == GetByName(kind, normalized, ~miss)
  IN IF existing # NoRow
     THEN [e EXCEPT !.name = existing.name] @@ [normalized_name |-> existing.key]
     ELSE e @@ [normalized_name |-> normalized]

\* Pass 2; missC / missM are the lookups that end in an error (null)
disambiguateEntities(entities, missC, missM) ==
  [concepts |-> [i \in 1..Len(entities.concepts) |->
                   disambiguateOne("concept", entities.concepts[i], i \in missC)],
   methods  |-> [i \in 1..Len(entities.methods) |->
                   disambiguateOne("method", entities.methods[i], i \in missM)],
   datasets |-> entities.datasets]

\* c.confidence *= 0.8
Penalty(c) == (c * 8) \div 10

ShortDescription == 20
MinConfidence == 50
MinMethodDescription == 10

ConceptSurvives(c) ==
  c.name # <<>> /\ c.description # 0 /\ ~(c.confidence < MinConfidence)

ScoreConcept(c) ==
  IF c.description < ShortDescription
  THEN [c EXCEPT !.confidence = Penalty(c.confidence)] ELSE c

MethodSurvives(m) ==
  m.name # <<>> /\ m.description # 0 /\ m.description > MinMethodDescription

DatasetSurvives(d) == d.name # <<>> /\ d.description # 0

\* Pass 3
validateAndScore(entities) ==
  LET kept == SelectSeq(entities.concepts, ConceptSurvives)
  IN [concepts |-> [i \in 1..Len(kept) |-> ScoreConcept(kept[i])],
      methods  |-> SelectSeq(entities.methods, MethodSurvives),
      datasets |-> SelectSeq(entities.datasets, DatasetSurvives)]

\* concept.normalized_name || normalizeEntityName(concept.name); dataset.name
KeyOf(kind, e) ==
  IF kind = "dataset" THEN e.name
  ELSE IF e.normalized_name # <<>> THEN e.normalized_name
  ELSE normalizeEntityName(e.name)

\* the three loops of storeEntities as one list of (kind, entity) items
WorkItems(v) ==
  [i \in 1..Len(v.concepts) |-> [kind |-> "concept", ent |-> v.concepts[i]]]
  \o [i \in 1..Len(v.methods) |-> [kind |-> "method", ent |-> v.methods[i]]]
  \o [i \in 1..Len(v.datasets) |-> [kind |-> "dataset", ent |-> v.datasets[i]]]


(***************************************************************************)
(* Callers.  wk[w] is the activation record of worker w:                   *)
(*   pc, job, paper : where it is, which agent runs, input.paperId         *)
(*   todo           : the validated entities storeEntities has yet to do   *)
(*   cur            : conceptId / methodId / datasetId of the head item    *)
(*   err            : the error its last store write ended with            *)
(*   pcs, related   : paperConcepts and relatedConcepts yet to do (ids)    *)
(*   pend           : the improvement createConceptImprovement is to write *)
(* and, recorded for the properties only:                                  *)
(*   fresh   : keys of the persistable validated concepts that were absent *)
(*             when the run began storeEntities (kept after the run)       *)
(*   already : every persistable validated entity was stored and linked    *)
(*             to the paper when the run began storeEntities               *)
(* faults counts the store calls that ended in a transport error.          *)
(***************************************************************************)
NoPend == [type |-> "", confidence |-> 0]

IdleWk ==
  [pc |-> "idle", job |-> "none", paper |-> GhostPaper, todo |-> <<>>, cur |-> 0,
   err |-> "none", pcs |-> <<>>, related |-> <<>>, pend |-> NoPend,
   fresh |-> {}, already |-> FALSE]

StorePcs == {"store_get", "store_insert", "store_link"}

\* the outcomes of one store call: it runs, or (within MaxFaults) it ends in
\* a transport error
Outcomes == IF faults < MaxFaults THEN BOOLEAN ELSE {TRUE}

Fault(ok) == IF ok THEN 0 ELSE 1

\* callers are interchangeable: a new run takes the first idle worker
MayStart(w) ==
  /\ wk[w].pc = "idle"
  /\ runs < MaxRuns
  /\ w = "w1" \/ wk["w1"].pc # "idle"

\* what is left of a run's record once it has returned
Returned(r) ==
  IF r.job = "extract" /\ r.fresh # {}
  THEN [IdleWk EXCEPT !.job = r.job, !.paper = r.paper, !.fresh = r.fresh]
  ELSE IdleWk

Persistable(item, paperId) ==
  /\ paperId \in papers
  /\ item.kind = "concept" => (item.ent.confidence >= 0 /\ item.ent.confidence <= 100)

Stored(item, paperId) ==
  \E r \in rows[item.kind] :
    /\ r.key = KeyOf(item.kind, item.ent)
    /\ \E l \in links[item.kind] : l.paper_id = paperId /\ l.entity_id = r.id

FreshKeys(items, paperId) ==
  {KeyOf("concept", items[i].ent) :
     i \in {j \in 1..Len(items) :
              /\ items[j].kind = "concept"
              /\ Persistable(items[j], paperId)
              /\ ~\E r \in rows["concept"] : r.key = KeyOf("concept", items[j].ent)}}

\* execute up to the first call of storeEntities: validateInput (the caller
\* passes paperId, title and abstract, as batch-process-papers.ts does),
\* extractPass1, disambiguateEntities, validateAndScore.  The lookups of
\* Pass 2 only rebind names, so the pass is one step.
ExtractPasses(w) ==
  /\ MayStart(w)
  /\ \E paperId \in PaperIds \cup {GhostPaper}, failed \in BOOLEAN, answer \in OracleAnswers :
       LET entities == IF failed THEN EmptyEntities ELSE answer
           hitC == {i \in 1..Len(entities.concepts) :
                      KeyTaken("concept", normalizeEntityName(entities.concepts[i].name))}
           hitM == {i \in 1..Len(entities.methods) :
                      KeyTaken("method", normalizeEntityName(entities.methods[i].name))}
       IN /\ failed => answer = EmptyEntities
          /\ \E missC \in SUBSET hitC, missM \in SUBSET hitM :
               LET validated == validateAndScore(disambiguateEntities(entities, missC, missM))
                   items == WorkItems(validated)
                   started == [IdleWk EXCEPT
                                 !.pc = "store_get", !.job = "extract", !.paper = paperId,
                                 !.todo = items, !.fresh = FreshKeys(items, paperId),
                                 !.already = \A i \in 1..Len(items) :
                                     Persistable(items[i], paperId) => Stored(items[i], paperId)]
               IN /\ faults + Cardinality(missC) + Cardinality(missM) <= MaxFaults
                  /\ faults' = faults + Cardinality(missC) + Cardinality(missM)
                  /\ wk' = [wk EXCEPT ![w] = IF items = <<>> THEN Returned(started) ELSE started]
  /\ runs' = runs + 1
  /\ UNCHANGED <<helperVars, rd, storeVars, batchVars, walkVars, checkVars>>

\* the end of one loop iteration of storeEntities (or its catch block)
NextItem(r, e) ==
  IF Tail(r.todo) = <<>> THEN Returned(r)
  ELSE [r EXCEPT !.todo = Tail(@), !.cur = 0, !.err = e, !.pc = "store_get"]

\* const existing = await getConceptByName(...)
StoreGet(w) ==
  /\ wk[w].pc = "store_get"
  /\ \E ok \in Outcomes :
       LET item == Head(wk[w].todo)
           existing == GetByName(item.kind, KeyOf(item.kind, item.ent), ok)
       IN /\ wk' = [wk EXCEPT ![w] =
                      [@ EXCEPT !.cur = existing.id,
                                !.pc = IF existing # NoRow THEN "store_link" ELSE "store_insert"]]
          /\ faults' = faults + Fault(ok)
  /\ UNCHANGED <<helperVars, rd, storeVars, runs, batchVars, walkVars, checkVars>>

\* const inserted = await insertConcept({...})
StoreInsert(w) ==
  /\ wk[w].pc = "store_insert"
  /\ \E ok \in Outcomes :
       LET item == Head(wk[w].todo)
           key == KeyOf(item.kind, item.ent)
           e == InsertError(item.kind, item.ent, key, wk[w].paper, ok)
           row == NewRow(item.kind, item.ent, key, wk[w].paper)
       IN /\ IF e = "none"
             THEN /\ rows' = [rows EXCEPT ![item.kind] = @ \cup {row}]
                  /\ wk' = [wk EXCEPT ![w] = [@ EXCEPT !.cur = row.id, !.err = "none",
                                                       !.pc = "store_link"]]
             ELSE /\ rows' = rows
                  /\ wk' = [wk EXCEPT ![w] = NextItem(@, e)]
          /\ faults' = faults + Fault(ok)
  /\ UNCHANGED <<helperVars, rd, papers, links, improves, runs, batchVars, walkVars, checkVars>>

\* await linkPaperToConcept(paperId, conceptId, concept.confidence)
StoreLink(w) ==
  /\ wk[w].pc = "store_link"
  /\ \E ok \in Outcomes :
       LET item == Head(wk[w].todo)
           e == LinkError(item.kind, wk[w].paper, wk[w].cur, item.ent, ok)
       IN /\ links' = IF e = "none"
                      THEN [links EXCEPT ![item.kind] =
                              @ \cup {NewLink(item.kind, wk[w].paper, wk[w].cur, item.ent)}]
                      ELSE links
          /\ wk' = [wk EXCEPT ![w] = NextItem(@, e)]
          /\ faults' = faults + Fault(ok)
  /\ UNCHANGED <<helperVars, rd, papers, rows, improves, runs, batchVars, walkVars, checkVars>>

(***************************************************************************)
(* RelationshipMapperAgent                                                 *)
(***************************************************************************)
\* .limit(10) of the candidate query
CandidateLimit == 10

\* result.confidence || 0.7
DefaultImprovementConfidence == 70

\* the orders in which a query without ORDER BY may return the set S
Enumerations(S) ==
  {q \in [1..Cardinality(S) -> S] : \A i, j \in 1..Cardinality(S) : q[i] = q[j] => i = j}

\* getConceptsByPaper(paperId): the concept ids of the paper's links
ConceptsByPaper(paperId) ==
  {l.entity_id : l \in {m \in links["concept"] : m.paper_id = paperId}}

\* from('concepts').select('*').neq('id', concept.id).limit(10)
RelatedConcepts_Unfiltered(conceptId) == {r.id : r \in rows["concept"]}
RelatedConcepts(conceptId) == {r.id : r \in {q \in rows["concept"] : q.id # conceptId}}

RelatedPages(conceptId) ==
  LET all == RelatedConcepts(conceptId)
  IN IF Cardinality(all) <= CandidateLimit THEN {all}
     ELSE {S \in SUBSET all : Cardinality(S) = CandidateLimit}

\* the end of one iteration of the inner loop, and of the outer loop when
\* the candidates are used up; mapCitations and mapUsageRelationships, which
\* follow the outer loop, write nothing
NextCandidate(r, e) ==
  LET rel == IF r.related = <<>> THEN <<>> ELSE Tail(r.related)
      out == IF rel = <<>> THEN Tail(r.pcs) ELSE r.pcs
  IN IF rel = <<>> /\ out = <<>> THEN Returned(r)
     ELSE [r EXCEPT !.related = rel, !.pcs = out, !.err = e, !.pend = NoPend,
                    !.pc = IF rel # <<>> THEN "map_classify" ELSE "map_related"]

\* execute up to the return of getConceptsByPaper (an error there is caught
\* by mapImprovements and ends it with no improvements)
MapConcepts(w) ==
  /\ MayStart(w)
  /\ \E paperId \in PaperIds \cup {GhostPaper}, ok \in Outcomes :
       \E order \in Enumerations(IF ok THEN ConceptsByPaper(paperId) ELSE {}) :
         LET started == [IdleWk EXCEPT !.job = "map", !.paper = paperId, !.pcs = order,
                                       !.pc = "map_related"]
         IN /\ wk' = [wk EXCEPT ![w] = IF order = <<>> THEN Returned(started) ELSE started]
            /\ faults' = faults + Fault(ok)
  /\ runs' = runs + 1
  /\ UNCHANGED <<helperVars, rd, storeVars, batchVars, walkVars, checkVars>>

\* const { data: relatedConcepts } = await ...neq('id', concept.id).limit(10)
MapRelated(w) ==
  /\ wk[w].pc = "map_related"
  /\ \E ok \in Outcomes :
       \E page \in (IF ok THEN RelatedPages(Head(wk[w].pcs)) ELSE {{}}) :
         \E order \in Enumerations(page) :
           /\ wk' = [wk EXCEPT ![w] =
                       IF order = <<>> THEN NextCandidate(@, @.err)
                       ELSE [@ EXCEPT !.related = order, !.pc = "map_classify"]]
           /\ faults' = faults + Fault(ok)
  /\ UNCHANGED <<helperVars, rd, storeVars, runs, batchVars, walkVars, checkVars>>

\* result.has_relationship && result.relationship_type === 'improves_on'
IsImprovement_AnyRelationship(result) == result.has_relationship
IsImprovement(result) ==
  result.has_relationship /\ result.relationship_type = "improves_on"

\* the arguments of createConceptImprovement: result.improvement_category ||
\* 'quality' and result.confidence || 0.7
ImprovementOf(result) ==
  [type |-> IF result.improvement_category = "" THEN "quality"
            ELSE result.improvement_category,
   confidence |-> IF result.confidence = 0 THEN DefaultImprovementConfidence
                  ELSE result.confidence]

\* const result = await llmClient.extractStructuredData(prompt)
MapClassify(w) ==
  /\ wk[w].pc = "map_classify"
  /\ \/ \* the oracle call throws: caught, the pair is skipped
        wk' = [wk EXCEPT ![w] = NextCandidate(@, @.err)]
     \/ \E result \in ClassifyAnswers :
          wk' = [wk EXCEPT ![w] =
                   IF IsImprovement(result)
                   THEN [@ EXCEPT !.pc = "map_create", !.pend = ImprovementOf(result)]
                   ELSE NextCandidate(@, @.err)]
  /\ UNCHANGED <<helperVars, rd, storeVars, runs, faults, batchVars, walkVars, checkVars>>

\* const improvement = await createConceptImprovement(...)
MapCreate(w) ==
  /\ wk[w].pc = "map_create"
  /\ \E ok \in Outcomes :
       LET n == Head(wk[w].pcs)
           o == Head(wk[w].related)
           e == ImprovementError(n, o, wk[w].pend.type, wk[w].pend.confidence, ok)
       IN /\ improves' = IF e = "none"
                         THEN improves \cup {NewImprovement(n, o, wk[w].pend.type,
                                                            wk[w].pend.confidence)}
                         ELSE improves
          /\ wk' = [wk EXCEPT ![w] = NextCandidate(@, e)]
          /\ faults' = faults + Fault(ok)
  /\ UNCHANGED <<helperVars, rd, papers, rows, links, runs, batchVars, walkVars, checkVars>>

(***************************************************************************)
(* Spec: agent runs over the shared store.                                 *)
(***************************************************************************)
StoreInit ==
  /\ papers = PaperIds
  /\ rows = [k \in Kinds |-> {}]
  /\ links = [k \in Kinds |-> {}]
  /\ improves = {}

Init ==
  /\ StoreInit
  /\ wk = [w \in Workers |-> IdleWk]
  /\ runs = 0
  /\ faults = 0
  /\ units = <<>>
  /\ settled = <<>>
  /\ batch = "idle"
  /\ registered = "repository"
  /\ extractFails = {}
  /\ throwOnTimeout = FALSE
  /\ exitCode = "none"
  /\ walk = IdleWalk
  /\ graph = NoGraph
  /\ report = NoReport
  /\ ex = NoRun
  /\ mp = NoRun
  /\ task = NoRun
  /\ norm = NoRun
  /\ chunk = NoRun
  /\ rd = NoRun

Next ==
  \E w \in Workers :
    \/ ExtractPasses(w)
    \/ StoreGet(w)
    \/ StoreInsert(w)
    \/ StoreLink(w)
    \/ MapConcepts(w)
    \/ MapRelated(w)
    \/ MapClassify(w)
    \/ MapCreate(w)

Spec == Init /\ [][Next]_vars

(***************************************************************************)
(* SpecBatch: AgentCoordinator.processPapersBatch.                         *)
(*   units[i]     : the unit of work of paperIds[i]: pc is "queued", the   *)
(*                  stage it is to run next, "fulfilled" or "rejected";    *)
(*                  log is the stages it has run with how each ended;      *)
(*                  persisted says that its entities reached storeEntities *)
(*                  promise is the state of the promise add() returned;    *)
(*                  expiredIn is the stage that was being awaited when the *)
(*                  queue's timeout fired for the unit ("none": it has not)*)
(*   settled      : the array processPapersBatch returns                   *)
(*   batch        : "idle", "running", "returned" or "rejected"            *)
(*   registered   : the agents registered with the coordinator: the four   *)
(*                  of the repository, or any subclasses of Agent          *)
(*   extractFails : the papers whose extraction oracle call always fails   *)
(*   throwOnTimeout : whether the installed p-queue rejects the promise of *)
(*                  a unit that timed out, or fulfils it with undefined    *)
(*   exitCode     : the exit code of main ("0", "1"), "none" while it runs *)
(***************************************************************************)
\* config.agent.max_concurrent_agents (default)
MaxConcurrentAgents == 3

StageOrder == <<"reader", "extractor", "mapper", "validator">>
Stages == {"reader", "extractor", "mapper", "validator"}
Final == {"fulfilled", "rejected"}

StageIndex(stage) == CHOOSE k \in 1..Len(StageOrder) : StageOrder[k] = stage

\* the fields of the object orchestratePaperProcessing hands to each stage;
\* the extractor gets what parsePaper returned
ReaderOutput == {"id", "title", "abstract"}

StageInput(stage) ==
  CASE stage = "reader" -> {"paperId"}
    [] stage = "extractor" -> ReaderOutput
    [] stage = "mapper" -> {"paperId", "entities"}
    [] stage = "validator" -> {"paperId", "entities", "relationships"}

\* the fields each agent's execute requires of its input
RequiredFields(stage) ==
  CASE stage = "reader" -> {"paperId"}
    [] stage = "extractor" -> {"paperId", "title", "abstract"}
    [] stage = "mapper" -> {"paperId", "entities"}
    [] stage = "validator" -> {"paperId", "entities", "relationships"}

\* Agent.validateInput: TRUE when it does not throw
validateInput(input, required) == required \subseteq input

\* how executeTask of a stage may end for unit i.  Repository agents: the
\* reader throws when the paper is not found (or its lookup fails); the
\* extractor, mapper and validator throw only from validateInput, every other
\* error being caught inside them (a failed oracle call gives empty entities).
StageOutcomes(stage, i) ==
  IF registered = "any"
  THEN IF stage = "extractor" /\ i \in extractFails THEN {"threw"}
       ELSE {"returned", "threw"}
  ELSE IF ~validateInput(StageInput(stage), RequiredFields(stage)) THEN {"threw"}
  ELSE IF stage = "reader" THEN {"returned", "threw"}
  ELSE {"returned"}

\* storeEntities is reached with the paper's entities
Persists(stage, i, outcome) ==
  /\ registered = "repository"
  /\ stage = "extractor"
  /\ outcome = "returned"
  /\ i \notin extractFails

\* orchestratePaperProcessing after a stage returned: the next step, or the
\* return of { status: 'completed' }
AfterReturn(stage) ==
  IF StageIndex(stage) = Len(StageOrder) THEN "fulfilled"
  ELSE StageOrder[StageIndex(stage) + 1]

\* orchestratePaperProcessing after a stage threw: catch, log, throw error
AfterThrow_Continue(stage) == AfterReturn(stage)
AfterThrow(stage) == "rejected"

\* PQueue: while fewer than MaxConcurrentAgents started units have a pending
\* promise, the queued unit that was added first is started
StartQueued_Never(us) == us
RECURSIVE StartQueued(_)
StartQueued(us) ==
  LET running == {i \in DOMAIN us : us[i].pc # "queued" /\ us[i].promise = "pending"}
      queued == {i \in DOMAIN us : us[i].pc = "queued"}
  IN IF queued = {} \/ Cardinality(running) >= MaxConcurrentAgents THEN us
     ELSE LET first == CHOOSE i \in queued : \A j \in queued : i <= j
          IN StartQueued([us EXCEPT ![first].pc = StageOrder[1]])

\* Promise.all would reject with the first rejection
BatchOutcome_All(us) ==
  IF \E i \in DOMAIN us : us[i].promise = "rejected" THEN "rejected"
  ELSE IF \A i \in DOMAIN us : us[i].promise = "fulfilled" THEN "returned"
  ELSE "running"

\* Promise.allSettled resolves once every promise has settled
BatchOutcome(us) ==
  IF \A i \in DOMAIN us : us[i].promise \in Final THEN "returned" ELSE "running"

Results(us) == [i \in DOMAIN us |-> us[i].promise]

\* how the queue settles the promise of a unit whose timeout fired
TimeoutSettles == IF throwOnTimeout THEN "rejected" ELSE "fulfilled"

\* processPapersBatch(paperIds) up to its await: every unit is added to the
\* queue, which starts the first MaxConcurrentAgents of them
processPapersBatch ==
  /\ batch = "idle"
  /\ units' = StartQueued([i \in 1..BatchSize |->
                             [pc |-> "queued", log |-> <<>>, persisted |-> FALSE,
                              promise |-> "pending", expiredIn |-> "none"]])
  /\ batch' = "running"
  /\ UNCHANGED <<helperVars, rd, storeVars, agentVars, walkVars, checkVars, settled, registered, extractFails,
                 throwOnTimeout, exitCode>>

\* what the settling of promises does to the batch: the queue starts the next
\* queued unit and, once every promise has settled, allSettled resolves
Settle(us) ==
  LET after == StartQueued(us)
  IN /\ units' = after
     /\ batch' = IF batch = "running" THEN BatchOutcome(after) ELSE batch
     /\ settled' = IF batch = "running" /\ BatchOutcome(after) = "returned"
                   THEN Results(after) ELSE settled

\* one awaited executeTask of orchestratePaperProcessing for unit i, with
\* what follows it: the next stage, or the settling of the unit, the start
\* of the next queued unit and, after the last unit, the batch result.  The
\* pipeline of a unit that timed out is a promise nobody cancels: it goes on.
RunStage(i) ==
  /\ i \in DOMAIN units
  /\ units[i].pc \in Stages
  /\ \E outcome \in StageOutcomes(units[i].pc, i) :
       LET stage == units[i].pc
           pc2 == IF outcome = "returned" THEN AfterReturn(stage) ELSE AfterThrow(stage)
       IN Settle([units EXCEPT
                    ![i].log = Append(@, [stage |-> stage, outcome |-> outcome]),
                    ![i].persisted = @ \/ Persists(stage, i, outcome),
                    ![i].pc = pc2,
                    ![i].promise = IF @ = "pending" /\ pc2 \in Final THEN pc2 ELSE @])
  /\ UNCHANGED <<helperVars, rd, storeVars, agentVars, walkVars, checkVars, registered, extractFails, throwOnTimeout, exitCode>>

\* the timeout of the queue fires for unit i while one of its stages is
\* awaited: the promise of the unit settles and its slot is given up
TimeOut(i) ==
  /\ i \in DOMAIN units
  /\ units[i].pc \in Stages
  /\ units[i].promise = "pending"
  /\ Cardinality({j \in DOMAIN units : units[j].expiredIn # "none"}) < MaxTimeouts
  /\ Settle([units EXCEPT ![i].promise = TimeoutSettles, ![i].expiredIn = units[i].pc])
  /\ UNCHANGED <<helperVars, rd, storeVars, agentVars, walkVars, checkVars, registered, extractFails, throwOnTimeout, exitCode>>

\* main when initialize or the traversal of executeFullPipeline throws:
\* catch, log, process.exit(1)
mainAborts ==
  /\ batch = "idle"
  /\ exitCode = "none"
  /\ batch' = "aborted"
  /\ exitCode' = "1"
  /\ UNCHANGED <<helperVars, rd, storeVars, agentVars, walkVars, checkVars, units, settled, registered, extractFails,
                 throwOnTimeout>>

\* main after processPapersBatch returned: executeFullPipeline logs the
\* count and returns, getStats never throws, main returns and the process
\* ends with code 0 when no pipeline is left running
mainReturns ==
  /\ batch = "returned"
  /\ exitCode = "none"
  /\ \A i \in DOMAIN units : units[i].pc \in Final
  /\ exitCode' = "0"
  /\ UNCHANGED <<helperVars, rd, storeVars, agentVars, walkVars, checkVars, units, settled, batch, registered, extractFails,
                 throwOnTimeout>>

InitBatch ==
  /\ StoreInit
  /\ wk = [w \in Workers |-> IdleWk]
  /\ runs = 0
  /\ faults = 0
  /\ units = <<>>
  /\ settled = <<>>
  /\ batch = "idle"
  /\ registered \in {"repository", "any"}
  /\ extractFails \in {S \in SUBSET (1..BatchSize) : Cardinality(S) <= 1}
  /\ registered = "any" => extractFails = {}
  /\ throwOnTimeout \in BOOLEAN
  /\ exitCode = "none"
  /\ walk = IdleWalk
  /\ graph = NoGraph
  /\ report = NoReport
  /\ ex = NoRun
  /\ mp = NoRun
  /\ task = NoRun
  /\ norm = NoRun
  /\ chunk = NoRun
  /\ rd = NoRun

NextBatch ==
  \/ processPapersBatch
  \/ \E i \in 1..BatchSize : RunStage(i)
  \/ \E i \in 1..BatchSize : TimeOut(i)
  \/ mainAborts
  \/ mainReturns

SpecBatch == InitBatch /\ [][NextBatch]_vars

\* the batch of the repository's agents when every awaited call of a stage
\* returns or fails in the end: a unit that is inside a stage takes its step
InitBatchLive == InitBatch /\ registered = "repository"

SpecBatchLive ==
  /\ InitBatchLive
  /\ [][NextBatch]_vars
  /\ WF_vars(\E i \in 1..BatchSize : RunStage(i))

(***************************************************************************)
(* SpecWalk: PaperReaderAgent.execute({seedPaper, limit}), the traversal   *)
(* of the citation network, run twice over one graph snapshot.             *)
(*   graph : the snapshot the fetcher serves: for paper i, refs[i] and     *)
(*           cites[i] are the papers getReferences and getCitations list   *)
(*           (in the order of the answer) and count[i] its citationCount   *)
(*           (0: the field is missing)                                     *)
(*   papers: the papers of table papers (by their fetcher identifier)      *)
(*   walk  : pc; seed and limit of the input; queue, visited, papers of    *)
(*           fetchRelatedPapers; run (1 or 2) and first, what run 1        *)
(*           returned; mode, the state of the outside world during the run *)
(*           ("up"; "down": every call of the store fails; "missing": the  *)
(*           fetcher reports every paper not found);                       *)
(*           and, recorded for the properties: expandedAt, the             *)
(*           numbers of papers yielded when references and citations were  *)
(*           fetched; cands and pushed, the unvisited related papers of    *)
(*           the last expansion in the order found and what was queued     *)
(* Identifiers are integers: n is the citation-network id (paperId) of     *)
(* paper n, and -n is the same paper named by its arXiv id; queue and      *)
(* visited hold identifiers, papers holds the stored rows (paper numbers). *)
(***************************************************************************)
\* input.limit || 50
DefaultLimit == 50
\* getReferences(currentPaperId, 10), getCitations(currentPaperId, 10)
FetchLimit == 10
\* .slice(0, 5)
TopN == 5

\* a seed with 8 references of citation counts 10, 9, 8, 7, 6, 5, 4, 3
StarGraph ==
  [refs  |-> << <<2, 3, 4, 5, 6, 7, 8, 9>>, <<>>, <<>>, <<>>, <<>>, <<>>, <<>>, <<>>, <<>> >>,
   cites |-> << <<>>, <<>>, <<>>, <<>>, <<>>, <<>>, <<>>, <<>>, <<>> >>,
   count |-> <<20, 5, 10, 3, 9, 8, 7, 6, 4>>]

\* a graph with a cycle, a paper listed twice, equal and missing counts
TiedGraph ==
  [refs  |-> << <<2, 3>>, <<1>>, <<4>>, <<>> >>,
   cites |-> << <<4, 3>>, <<>>, <<>>, <<1>> >>,
   count |-> <<7, 4, 4, 0>>]

Graphs == {StarGraph, TiedGraph}

InputLimits == 0..MaxLimit

\* longest frontier of a traversal
MaxQueue == 8

\* the arXiv form of the identifier of paper n, and the paper an identifier
\* names: getPaper answers with the same paperData for both forms
ArxivForm(n) == -n
PaperOf(id) == IF id < 0 THEN -id ELSE id

\* the seed as its citation-network id or as its arXiv id
Seeds == {1, ArxivForm(1)}

WalkModes == {"up", "down", "missing"}

\* visited.has(id)
Visited_Never(id, visited) == FALSE
Visited(id, visited) == id \in visited

Take(q, n) == SubSeq(q, 1, IF Len(q) < n THEN Len(q) ELSE n)

\* semanticScholar.getReferences / getCitations: [] when the call fails
getReferences(id, ok) == IF ok THEN Take(graph.refs[PaperOf(id)], FetchLimit) ELSE <<>>
getCitations(id, ok) == IF ok THEN Take(graph.cites[PaperOf(id)], FetchLimit) ELSE <<>>

\* (b.citationCount || 0) - (a.citationCount || 0) <= 0: a stays before b
KeepsOrder_Strict(a, b) == graph.count[a] > graph.count[b]
KeepsOrder(a, b) == graph.count[a] >= graph.count[b]

RECURSIVE InsertSorted(_, _)
\* x put behind every element of the sorted q that it does not beat
InsertSorted(x, q) ==
  IF q = <<>> THEN <<x>>
  ELSE IF KeepsOrder(Head(q), x) THEN <<Head(q)>> \o InsertSorted(x, Tail(q))
  ELSE <<x>> \o q

RECURSIVE SortByCitations(_)
\* Array.prototype.sort with the comparator above (a stable sort): the last
\* element inserted into the sorted rest (bound as a value, for TLC to
\* evaluate it once)
SortByCitations(q) ==
  IF q = <<>> THEN <<>>
  ELSE CHOOSE r \in {InsertSorted(q[Len(q)], sorted) :
                       sorted \in {SortByCitations(SubSeq(q, 1, Len(q) - 1))}} : TRUE

\* [...references, ...citations].filter(p => p.paperId && !visited.has(p.paperId))
Candidates(id, visited, refsOk, citesOk) ==
  SelectSeq(getReferences(id, refsOk) \o getCitations(id, citesOk),
            LAMBDA n : ~Visited(n, visited))

\* .sort(...).slice(0, 5).map(p => p.paperId)
relatedPapers(cands) == Take(SortByCitations(cands), TopN)

\* the limit fetchRelatedPapers is called with
EffectiveLimit(limit) == IF limit = 0 THEN DefaultLimit ELSE limit

\* storePaper when the lookups find the paper: "row" (it is returned)
StoreExisting_Skip == "null"
StoreExisting == "row"

\* storePaper: the row it returns, or null when the insert fails
storePaper(id, insertOk) ==
  IF id \in papers THEN StoreExisting
  ELSE IF insertOk THEN "row" ELSE "null"

\* execute({seedPaper, limit}): this.fetchRelatedPapers(seedPaper, limit || 50)
\* up to the first test of the loop; a second call once the first returned
StartWalk ==
  /\ walk.pc \in {"idle", "returned"}
  /\ walk.pc = "returned" => walk.run = 1
  /\ \E seed \in Seeds, limit \in InputLimits, mode \in WalkModes :
       /\ walk.pc = "returned" => (seed = walk.seed /\ limit = walk.limit)
       /\ walk' = [pc |-> "loop", seed |-> seed, limit |-> limit, mode |-> mode,
                   queue |-> <<seed>>, visited |-> {}, papers |-> <<>>,
                   expandedAt |-> {}, cands |-> <<>>, pushed |-> <<>>,
                   run |-> IF walk.pc = "idle" THEN 1 ELSE 2,
                   first |-> IF walk.pc = "idle" THEN <<>> ELSE walk.papers,
                   clean |-> IF walk.pc = "idle" THEN TRUE ELSE walk.clean]
  /\ UNCHANGED <<helperVars, rd, storeVars, agentVars, batchVars, graph, checkVars>>

\* one iteration of the while loop of fetchRelatedPapers
WalkStep ==
  /\ walk.pc = "loop"
  /\ Len(walk.papers) < EffectiveLimit(walk.limit)
  /\ walk.queue # <<>>
  /\ LET cur == Head(walk.queue)
         rest == Tail(walk.queue)
     IN IF Visited(cur, walk.visited)
        THEN /\ walk' = [walk EXCEPT !.queue = rest]
             /\ UNCHANGED <<papers, faults>>
        ELSE \E got \in {"data", "null", "error"}, insertOk, refsOk, citesOk \in BOOLEAN :
               LET paper == PaperOf(cur)
                   failed == (IF got = "data" THEN 0 ELSE 1) + Fault(insertOk)
                             + Fault(refsOk) + Fault(citesOk)
                   stored == IF got # "data" \/ walk.mode = "down" THEN "null"
                             ELSE storePaper(paper, insertOk)
                   yielded == IF stored = "row" THEN Append(walk.papers, paper)
                              ELSE walk.papers
                   expands == got = "data" /\ Len(yielded) < EffectiveLimit(walk.limit)
                   cands == Candidates(cur, walk.visited \cup {cur}, refsOk, citesOk)
                   queued == IF expands THEN rest \o relatedPapers(cands) ELSE rest
               IN /\ walk.mode = "up" => faults + failed <= MaxFaults
                  /\ walk.mode = "down" => (got = "data" /\ ~insertOk /\ refsOk /\ citesOk)
                  /\ walk.mode = "missing" => (got = "null" /\ insertOk /\ refsOk /\ citesOk)
                  /\ (walk.mode = "up" /\ (got # "data" \/ paper \in papers)) => insertOk
                  /\ ~expands => (refsOk /\ citesOk)
                  /\ Len(queued) <= MaxQueue
                  /\ faults' = IF walk.mode = "up" THEN faults + failed ELSE faults
                  /\ papers' = IF stored = "row" THEN papers \cup {paper} ELSE papers
                  /\ walk' = IF got = "error"
                             THEN [walk EXCEPT !.pc = "threw", !.visited = @ \cup {cur},
                                               !.queue = rest, !.clean = FALSE]
                             ELSE [walk EXCEPT
                                     !.visited = @ \cup {cur},
                                     !.papers = yielded,
                                     !.queue = queued,
                                     !.expandedAt = IF expands THEN @ \cup {Len(yielded)}
                                                    ELSE @,
                                     !.cands = IF expands THEN cands ELSE @,
                                     !.pushed = IF expands THEN relatedPapers(cands) ELSE @,
                                     !.clean = @ /\ walk.mode = "up" /\ failed = 0]
  /\ UNCHANGED <<helperVars, rd, rows, links, improves, wk, runs, batchVars, graph, checkVars>>

\* the loop test fails: return papers
WalkReturns ==
  /\ walk.pc = "loop"
  /\ ~(Len(walk.papers) < EffectiveLimit(walk.limit) /\ walk.queue # <<>>)
  /\ walk' = [walk EXCEPT !.pc = "returned"]
  /\ UNCHANGED <<helperVars, rd, storeVars, agentVars, batchVars, graph, checkVars>>

InitWalk ==
  /\ papers = {}
  /\ rows = [k \in Kinds |-> {}]
  /\ links = [k \in Kinds |-> {}]
  /\ improves = {}
  /\ wk = [w \in Workers |-> IdleWk]
  /\ runs = 0
  /\ faults = 0
  /\ units = <<>>
  /\ settled = <<>>
  /\ batch = "idle"
  /\ registered = "repository"
  /\ extractFails = {}
  /\ throwOnTimeout = FALSE
  /\ exitCode = "none"
  /\ walk = IdleWalk
  /\ graph \in Graphs
  /\ report = NoReport
  /\ ex = NoRun
  /\ mp = NoRun
  /\ task = NoRun
  /\ norm = NoRun
  /\ chunk = NoRun
  /\ rd = NoRun

NextWalk ==
  \/ StartWalk
  \/ WalkStep
  \/ WalkReturns

SpecWalk == InitWalk /\ [][NextWalk]_vars

\* the loop of fetchRelatedPapers goes on while every awaited call ends
SpecWalkLive == SpecWalk /\ WF_vars(WalkStep) /\ WF_vars(WalkReturns)

(***************************************************************************)
(* SpecValidate: ValidatorAgent.execute over a store that receives         *)
(* improvement edges between validation runs.                              *)
(*   report : what the last call of execute ended with: outcome is         *)
(*            "returned" or "threw"; duplicates, consistency, circular     *)
(*            (the number of circular_improvement conflicts) and isValid   *)
(*            are the results; and, recorded for the properties: input     *)
(*            and paperId (the fields the input carried and the paper it   *)
(*            named), reads (how each store read                           *)
(*            of the run ended) and edges (table concept_improves_concept  *)
(*            when the run read it) and run (the calls so far)             *)
(***************************************************************************)
\* concepts in the store, edges createConceptImprovement may add
ConceptCount == 3
MaxEdges == 3
\* calls of ValidatorAgent.execute in one behaviour
MaxValidations == 1

ConceptIds == 1..ConceptCount

\* the store reads of one execute call: checkDuplicates reads concepts and
\* methods, checkConsistency the paper, its concept links and the
\* improvements, resolveConflicts the link counts and, in
\* checkCircularImprovements, the edges
ReadNames ==
  {"concepts", "methods", "paper", "conceptLinks", "improvements", "linkCounts", "edges"}

\* a read gives its rows, gives { data: null, error }, or throws
ReadOutcomes == {"data", "null", "throw"}

AllReads(o) == [r \in ReadNames |-> o]

\* every read ends alike, or one read alone fails
ReadPatterns ==
  {AllReads(o) : o \in ReadOutcomes}
    \cup {[AllReads("data") EXCEPT ![r] = o] : r \in ReadNames, o \in {"null", "throw"}}

\* the inputs execute is called with: the coordinator's, and one that lacks
\* relationships
ValidatorInputs == {StageInput("validator"), {"paperId", "entities"}}

\* groups of rows of one normalized name with more than one row
DuplicateGroups(kind) ==
  Cardinality({k \in {r.key : r \in rows[kind]} :
                 Cardinality({r \in rows[kind] : r.key = k}) > 1})

\* pairs of concepts checkSimilarEntities compares with areSimilarEntities
ComparedPairs ==
  {p \in SUBSET rows["concept"] :
     Cardinality(p) = 2 /\ \A r, q \in p : r # q => r.key # q.key}

\* checkDuplicates: duplicates.length, similar being the pairs that
\* areSimilarEntities finds similar
checkDuplicates(f, similar) ==
  IF f["concepts"] = "throw" THEN 0
  ELSE LET concepts == IF f["concepts"] = "data" THEN DuplicateGroups("concept") ELSE 0
       IN IF f["methods"] = "throw" THEN concepts
          ELSE concepts
                 + (IF f["methods"] = "data" THEN DuplicateGroups("method") ELSE 0)
                 + (IF f["concepts"] = "data" THEN similar ELSE 0)

ConceptRowExists(id) == \E r \in rows["concept"] : r.id = id

\* confidence < 0 || confidence > 1 is logged as invalid
ValidConfidence(c) == ~(c < 0 \/ c > 100)

\* checkConsistency
checkConsistency(paperId, f) ==
  IF f["paper"] = "throw" THEN FALSE
  ELSE IF f["paper"] = "null" \/ paperId \notin papers THEN FALSE
  ELSE IF f["conceptLinks"] = "throw" \/ f["improvements"] = "throw" THEN FALSE
  ELSE /\ f["conceptLinks"] = "data" =>
            \A l \in {m \in links["concept"] : m.paper_id = paperId} :
              ValidConfidence(l.confidence) /\ ConceptRowExists(l.entity_id)
       /\ f["improvements"] = "data" =>
            \A e \in improves :
              /\ ConceptRowExists(e.new_concept) /\ ConceptRowExists(e.old_concept)
              /\ ValidConfidence(e.confidence)
              /\ e.new_concept # e.old_concept

\* graph.keys(): the new_concept values in the order the rows first show them
RECURSIVE GraphKeys(_)
GraphKeys(improvements) ==
  IF improvements = <<>> THEN <<>>
  ELSE LET rest == GraphKeys(SubSeq(improvements, 1, Len(improvements) - 1))
           last == improvements[Len(improvements)].new_concept
       IN IF \E i \in 1..Len(rest) : rest[i] = last THEN rest ELSE Append(rest, last)

\* graph.get(node) || []
Neighbors(improvements, node) ==
  LET from == SelectSeq(improvements, LAMBDA e : e.new_concept = node)
  IN [i \in 1..Len(from) |-> from[i].old_concept]

\* recursionStack.has(neighbor)
OnStack_AnyVisited(neighbor, recursionStack) == TRUE
OnStack(neighbor, recursionStack) == neighbor \in recursionStack

\* hasCycle(node) with the sets visited and recursionStack it shares with
\* every other call: st is their value at the call, the result has found
\* (what the call returns) and their value at the return.  A call that
\* returns true leaves recursionStack as it is.
RECURSIVE hasCycle(_, _, _), EachNeighbor(_, _, _, _)
hasCycle(improvements, node, st) ==
  EachNeighbor(improvements, node, Neighbors(improvements, node),
               [visited |-> st.visited \cup {node},
                recursionStack |-> st.recursionStack \cup {node}])

EachNeighbor(improvements, node, neighbors, st) ==
  IF neighbors = <<>>
  THEN [found |-> FALSE, visited |-> st.visited,
        recursionStack |-> st.recursionStack \ {node}]
  ELSE LET neighbor == Head(neighbors)
       IN IF neighbor \notin st.visited
          THEN LET r == hasCycle(improvements, neighbor, st)
               IN IF r.found THEN r
                  ELSE EachNeighbor(improvements, node, Tail(neighbors),
                                    [visited |-> r.visited,
                                     recursionStack |-> r.recursionStack])
          ELSE IF OnStack(neighbor, st.recursionStack)
          THEN [found |-> TRUE, visited |-> st.visited,
                recursionStack |-> st.recursionStack]
          ELSE EachNeighbor(improvements, node, Tail(neighbors), st)

\* for (const node of graph.keys()): the conflicts pushed
RECURSIVE EachKey(_, _, _)
EachKey(improvements, keys, st) ==
  IF keys = <<>> THEN 0
  ELSE IF Head(keys) \in st.visited THEN EachKey(improvements, Tail(keys), st)
  ELSE LET r == hasCycle(improvements, Head(keys), st)
       IN (IF r.found THEN 1 ELSE 0)
            + EachKey(improvements, Tail(keys),
                      [visited |-> r.visited, recursionStack |-> r.recursionStack])

\* checkCircularImprovements: the circular_improvement conflicts it pushes
\* when the read gives the rows in the order improvements
checkCircularImprovements(f, improvements) ==
  IF f["edges"] # "data" THEN 0
  ELSE EachKey(improvements, GraphKeys(improvements),
               [visited |-> {}, recursionStack |-> {}])

\* resolveConflicts: the circular_improvement conflicts among those it
\* returns.  Its own read selects a column count the table does not have
\* and UNIQUE(paper_id, concept_id) leaves no link twice, so it pushes no
\* duplicate_link; when that read throws the catch returns before
\* checkCircularImprovements is called.
resolveConflicts(f, improvements) ==
  IF f["linkCounts"] = "throw" THEN 0 ELSE checkCircularImprovements(f, improvements)

\* an error of a read leaves the check that performs the read: never, each
\* check catches what its reads throw
Escapes_Uncaught(f, read) == f[read] = "throw"
Escapes(f, read) == FALSE

\* table concept_improves_concept after resolveConflicts: it resolves
\* nothing, the conflicts are only returned
ResolvedEdges_Repaired(edges, circular) == IF circular > 0 THEN {} ELSE edges
ResolvedEdges(edges, circular) == edges

\* results.duplicates.length > 5 || !results.consistency
DuplicateThreshold == 5
isValid_AtThreshold(duplicates, consistency) ==
  ~(duplicates >= DuplicateThreshold \/ ~consistency)
isValid(duplicates, consistency) == ~(duplicates > DuplicateThreshold \/ ~consistency)

\* createConceptImprovement({ new_concept, old_concept, ... }) by a mapper
\* run of any paper
CreateImprovement ==
  /\ Cardinality(improves) < MaxEdges
  /\ \E n \in ConceptIds, o \in ConceptIds :
       /\ ImprovementError(n, o, "quality", DefaultImprovementConfidence, TRUE) = "none"
       /\ improves' = improves
                        \cup {NewImprovement(n, o, "quality", DefaultImprovementConfidence)}
  /\ UNCHANGED <<helperVars, rd, papers, rows, links, agentVars, batchVars, walkVars, checkVars>>

\* ValidatorAgent.execute(input)
Validate ==
  /\ report.ran => report.run < MaxValidations
  /\ \E input \in ValidatorInputs, paperId \in PaperIds \cup {GhostPaper}, f \in ReadPatterns,
        improvements \in Enumerations(improves), similar \in 0..Cardinality(ComparedPairs) :
       LET accepted == validateInput(input, RequiredFields("validator"))
           duplicates == checkDuplicates(f, similar)
           consistency == checkConsistency(paperId, f)
           circular == resolveConflicts(f, improvements)
           threw == ~accepted \/ \E r \in ReadNames : Escapes(f, r)
       IN /\ ~accepted => (paperId = GhostPaper /\ f = AllReads("data") /\ similar = 0)
          /\ report' = [ran |-> TRUE, run |-> IF report.ran THEN report.run + 1 ELSE 1,
                        paperId |-> paperId, input |-> input, reads |-> f, edges |-> improves,
                        outcome |-> IF threw THEN "threw" ELSE "returned",
                        duplicates |-> IF threw THEN 0 ELSE duplicates,
                        consistency |-> IF threw THEN FALSE ELSE consistency,
                        circular |-> IF threw THEN 0 ELSE circular,
                        isValid |-> IF threw THEN FALSE
                                    ELSE isValid(duplicates, consistency)]
          /\ improves' = IF accepted THEN ResolvedEdges(improves, circular) ELSE improves
  /\ UNCHANGED <<helperVars, rd, papers, rows, links, agentVars, batchVars, walkVars, runVars>>

\* four concepts of distinct normalized names, introduced by paper p1
ValidateRows ==
  {[id |-> 1, name |-> <<"G", "S">>, key |-> normalizeEntityName(<<"G", "S">>),
    description |-> 25, provenance |-> "p1", confidence |-> 90],
   [id |-> 2, name |-> <<"N">>, key |-> normalizeEntityName(<<"N">>),
    description |-> 25, provenance |-> "p1", confidence |-> 90],
   [id |-> 3, name |-> <<"3">>, key |-> normalizeEntityName(<<"3">>),
    description |-> 25, provenance |-> "p1", confidence |-> 90],
   [id |-> 4, name |-> <<"S">>, key |-> normalizeEntityName(<<"S">>),
    description |-> 25, provenance |-> "p1", confidence |-> 90]}

InitValidate ==
  /\ papers = PaperIds
  /\ rows = [k \in Kinds |-> IF k = "concept" THEN ValidateRows ELSE {}]
  /\ links = [k \in Kinds |->
                IF k = "concept"
                THEN {[id |-> r.id, paper_id |-> "p1", entity_id |-> r.id,
                       confidence |-> r.confidence] : r \in ValidateRows}
                ELSE {}]
  /\ improves = {}
  /\ wk = [w \in Workers |-> IdleWk]
  /\ runs = 0
  /\ faults = 0
  /\ units = <<>>
  /\ settled = <<>>
  /\ batch = "idle"
  /\ registered = "repository"
  /\ extractFails = {}
  /\ throwOnTimeout = FALSE
  /\ exitCode = "none"
  /\ walk = IdleWalk
  /\ graph = NoGraph
  /\ report = NoReport
  /\ ex = NoRun
  /\ mp = NoRun
  /\ task = NoRun
  /\ norm = NoRun
  /\ chunk = NoRun
  /\ rd = NoRun

NextValidate ==
  \/ CreateImprovement
  \/ Validate

SpecValidate == InitValidate /\ [][NextValidate]_vars

(***************************************************************************)
(* SpecExtract: calls of EntityExtractorAgent.execute, one after another,  *)
(* one step per pass and per store iteration.                              *)
(*   ex : pc ("pass2", "pass3", "store", "link", "returned", "threw");     *)
(*        run, the number of the call; paper, input.paperId; oracle, how   *)
(*        the oracle call of Pass 1 ended; pass1, pass2, pass3, what each  *)
(*        pass returned; passes, the passes that have run; todo, the       *)
(*        entities storeEntities has yet to do and cur the id of the head  *)
(*        one; log, for each entity storeEntities has done, the error its  *)
(*        iteration ended with ("none": stored and linked)                 *)
(***************************************************************************)
\* calls of EntityExtractorAgent.execute in one behaviour
MaxExtractions == 2

\* extractStructuredData returns the parsed answer, or throws: the retries
\* of complete are used up, or the answer does not parse
OracleOutcomes == {"answer", "timeout", "invalid"}

\* concepts, methods and datasets of an answer; a name <<>> or a description
\* 0 is a missing (or empty) field
ScoreConcepts ==
  { [name |-> <<"G", "S">>, description |-> 25, confidence |-> 90],
    [name |-> <<"N">>, description |-> 5, confidence |-> 60],
    [name |-> <<>>, description |-> 25, confidence |-> 90],
    [name |-> <<"3">>, description |-> 0, confidence |-> 90],
    [name |-> <<"n">>, description |-> 25, confidence |-> 40],
    [name |-> <<"S">>, description |-> 25, confidence |-> 150] }

ScoreMethods ==
  { [name |-> <<"S">>, description |-> 15, confidence |-> 90],
    [name |-> <<"N">>, description |-> 5, confidence |-> 90],
    [name |-> <<"G">>, description |-> 15, confidence |-> 30],
    [name |-> <<>>, description |-> 15, confidence |-> 90],
    [name |-> <<"3">>, description |-> 15, confidence |-> 150] }

ScoreDatasets ==
  { [name |-> <<"N">>, description |-> 25],
    [name |-> <<>>, description |-> 25],
    [name |-> <<"G">>, description |-> 0] }

ScoreAnswers ==
  { a \in [concepts : SeqsUpTo(ScoreConcepts, MaxEntities),
           methods  : SeqsUpTo(ScoreMethods, MaxEntities),
           datasets : SeqsUpTo(ScoreDatasets, MaxEntities)] :
      Len(a.concepts) + Len(a.methods) + Len(a.datasets) <= MaxEntities }

\* the inputs execute is called with: paperId, title and abstract, and one
\* that lacks the abstract
ExtractorInputs == {RequiredFields("extractor"), {"paperId", "title"}}

\* extractPass1 lets the error of the oracle call out: never, its catch
\* returns empty collections
Pass1Throws_Rethrown(oracle) == oracle # "answer"
Pass1Throws(oracle) == FALSE

\* extractPass1: the arrays of the answer, or empty arrays
extractPass1(oracle, answer) == IF oracle = "answer" THEN answer ELSE EmptyEntities

\* the loops of storeEntities go on after an iteration that ended with
\* error e: always, the catch inside the loop only logs
LoopContinues_UntilError(e) == e = "none"
LoopContinues(e) == TRUE

\* execute: validateInput and extractPass1
ExPass1 ==
  /\ ex.pc \in {"idle", "returned", "threw"}
  /\ ex.pc # "idle" => ex.run < MaxExtractions
  /\ \E input \in ExtractorInputs, paperId \in PaperIds \cup {GhostPaper},
        oracle \in OracleOutcomes, answer \in ScoreAnswers :
       LET accepted == validateInput(input, RequiredFields("extractor"))
           threw == ~accepted \/ Pass1Throws(oracle)
       IN /\ ~accepted => (paperId = GhostPaper /\ oracle = "answer")
          /\ (~accepted \/ oracle # "answer") => answer = EmptyEntities
          /\ ex' = [pc |-> IF threw THEN "threw" ELSE "pass2",
                    run |-> IF ex.pc = "idle" THEN 1 ELSE ex.run + 1,
                    paper |-> paperId, oracle |-> oracle,
                    pass1 |-> extractPass1(oracle, answer),
                    pass2 |-> EmptyEntities, pass3 |-> EmptyEntities,
                    passes |-> IF accepted THEN <<"pass1">> ELSE <<>>,
                    todo |-> <<>>, cur |-> 0, log |-> <<>>]
  /\ UNCHANGED <<helperVars, rd, storeVars, agentVars, batchVars, walkVars, report, mp, task>>

\* disambiguateEntities
ExPass2 ==
  /\ ex.pc = "pass2"
  /\ LET hitC == {i \in 1..Len(ex.pass1.concepts) :
                    KeyTaken("concept", normalizeEntityName(ex.pass1.concepts[i].name))}
         hitM == {i \in 1..Len(ex.pass1.methods) :
                    KeyTaken("method", normalizeEntityName(ex.pass1.methods[i].name))}
     IN \E missC \in SUBSET hitC, missM \in SUBSET hitM :
          ex' = [ex EXCEPT !.pc = "pass3", !.passes = Append(@, "pass2"),
                           !.pass2 = disambiguateEntities(ex.pass1, missC, missM)]
  /\ UNCHANGED <<helperVars, rd, storeVars, agentVars, batchVars, walkVars, report, mp, task>>

\* validateAndScore, and the call of storeEntities
ExPass3 ==
  /\ ex.pc = "pass3"
  /\ LET validated == validateAndScore(ex.pass2)
     IN ex' = [ex EXCEPT !.pc = "store", !.passes = Append(@, "pass3"),
                         !.pass3 = validated, !.todo = WorkItems(validated)]
  /\ UNCHANGED <<helperVars, rd, storeVars, agentVars, batchVars, walkVars, report, mp, task>>

\* the end of one loop iteration with error e
ExNextItem(r, e) ==
  IF LoopContinues(e)
  THEN [r EXCEPT !.pc = "store", !.todo = Tail(@), !.cur = 0, !.log = Append(@, e)]
  ELSE [r EXCEPT !.pc = "threw", !.log = Append(@, e)]

\* one loop iteration of storeEntities up to the link: the lookup by name
\* and, when it finds nothing, the insert
ExStoreEntity ==
  /\ ex.pc = "store"
  /\ ex.todo # <<>>
  /\ \E okGet \in BOOLEAN, okInsert \in BOOLEAN :
       LET item == Head(ex.todo)
           key == KeyOf(item.kind, item.ent)
           existing == GetByName(item.kind, key, okGet)
           e == IF existing # NoRow THEN "none"
                ELSE InsertError(item.kind, item.ent, key, ex.paper, okInsert)
           row == NewRow(item.kind, item.ent, key, ex.paper)
       IN /\ existing # NoRow => okInsert
          /\ rows' = IF existing = NoRow /\ e = "none"
                     THEN [rows EXCEPT ![item.kind] = @ \cup {row}] ELSE rows
          /\ ex' = IF e = "none"
                   THEN [ex EXCEPT !.pc = "link",
                                   !.cur = IF existing # NoRow THEN existing.id ELSE row.id]
                   ELSE ExNextItem(ex, e)
  /\ UNCHANGED <<helperVars, rd, papers, links, improves, agentVars, batchVars, walkVars, report, mp, task>>

\* await linkPaperToConcept / linkPaperToMethod / linkPaperToDataset
ExLinkEntity ==
  /\ ex.pc = "link"
  /\ \E ok \in BOOLEAN :
       LET item == Head(ex.todo)
           e == LinkError(item.kind, ex.paper, ex.cur, item.ent, ok)
       IN /\ links' = IF e = "none"
                      THEN [links EXCEPT ![item.kind] =
                              @ \cup {NewLink(item.kind, ex.paper, ex.cur, item.ent)}]
                      ELSE links
          /\ ex' = ExNextItem(ex, e)
  /\ UNCHANGED <<helperVars, rd, papers, rows, improves, agentVars, batchVars, walkVars, report, mp, task>>

\* storeEntities returns, execute returns validated
ExReturns ==
  /\ ex.pc = "store"
  /\ ex.todo = <<>>
  /\ ex' = [ex EXCEPT !.pc = "returned", !.passes = Append(@, "store")]
  /\ UNCHANGED <<helperVars, rd, storeVars, agentVars, batchVars, walkVars, report, mp, task>>

InitExtract ==
  /\ StoreInit
  /\ wk = [w \in Workers |-> IdleWk]
  /\ runs = 0
  /\ faults = 0
  /\ units = <<>>
  /\ settled = <<>>
  /\ batch = "idle"
  /\ registered = "repository"
  /\ extractFails = {}
  /\ throwOnTimeout = FALSE
  /\ exitCode = "none"
  /\ walk = IdleWalk
  /\ graph = NoGraph
  /\ report = NoReport
  /\ ex = NoRun
  /\ mp = NoRun
  /\ task = NoRun
  /\ norm = NoRun
  /\ chunk = NoRun
  /\ rd = NoRun

NextExtract ==
  \/ ExPass1
  \/ ExPass2
  \/ ExPass3
  \/ ExStoreEntity
  \/ ExLinkEntity
  \/ ExReturns

SpecExtract == InitExtract /\ [][NextExtract]_vars

(***************************************************************************)
(* SpecMap: one call of RelationshipMapperAgent.execute, one step per      *)
(* store query and per classified pair.                                    *)
(*   mp : pc ("related", "classify", "returned", "threw"); paper,          *)
(*        input.paperId; pcs and related, the paperConcepts and the        *)
(*        relatedConcepts yet to do (ids); queried, no query of the call   *)
(*        has failed; log, for each pair classified: new and old, the      *)
(*        relationship_type and has_relationship of the oracle's result    *)
(*        (type "threw": the oracle call threw) and the error the          *)
(*        iteration ended with ("none": the edge was created, "notcalled": *)
(*        createConceptImprovement was not called)                         *)
(***************************************************************************)
\* the inputs execute is called with: paperId and entities, and one that
\* lacks the entities
MapperInputs == {RequiredFields("mapper"), {"paperId"}}

\* the inner loop of mapImprovements goes on after an iteration that ended
\* with error e: always, the catch inside the loop only logs
NextPair_UntilError(e) == e \in {"none", "notcalled"}
NextPair(e) == TRUE

\* what is left to do after the pairs of the head concept
MpNextConcept(r) ==
  IF Tail(r.pcs) = <<>>
  THEN [r EXCEPT !.pc = "returned", !.pcs = <<>>, !.related = <<>>]
  ELSE [r EXCEPT !.pc = "related", !.pcs = Tail(@), !.related = <<>>]

\* execute: validateInput, and mapImprovements up to the return of
\* getConceptsByPaper
MpStart ==
  /\ mp.pc = "idle"
  /\ \E input \in MapperInputs, paperId \in PaperIds \cup {GhostPaper}, ok \in BOOLEAN :
       \E order \in Enumerations(IF ok THEN ConceptsByPaper(paperId) ELSE {}) :
         LET accepted == validateInput(input, RequiredFields("mapper"))
         IN /\ ~accepted => (paperId = GhostPaper /\ ok)
            /\ mp' = [pc |-> IF ~accepted THEN "threw"
                             ELSE IF order = <<>> THEN "returned" ELSE "related",
                      paper |-> paperId, pcs |-> IF accepted THEN order ELSE <<>>,
                      related |-> <<>>, queried |-> ok, log |-> <<>>]
  /\ UNCHANGED <<helperVars, rd, storeVars, agentVars, batchVars, walkVars, report, ex, task>>

\* const { data: relatedConcepts } = await ...neq('id', concept.id).limit(10)
MpRelated ==
  /\ mp.pc = "related"
  /\ \E ok \in BOOLEAN :
       \E page \in (IF ok THEN RelatedPages(Head(mp.pcs)) ELSE {{}}) :
         \E order \in Enumerations(page) :
           mp' = IF order = <<>>
                 THEN [MpNextConcept(mp) EXCEPT !.queried = @ /\ ok]
                 ELSE [mp EXCEPT !.pc = "classify", !.related = order]
  /\ UNCHANGED <<helperVars, rd, storeVars, agentVars, batchVars, walkVars, report, ex, task>>

\* the end of the iteration of the inner loop for the head pair
MpNextPair(r, entry) ==
  LET logged == [r EXCEPT !.log = Append(@, entry)]
  IN IF NextPair(entry.error) /\ Tail(r.related) # <<>>
     THEN [logged EXCEPT !.related = Tail(@)]
     ELSE MpNextConcept(logged)

\* one iteration of the inner loop: classify the pair and, for an
\* improvement, createConceptImprovement
MpPair ==
  /\ mp.pc = "classify"
  /\ LET n == Head(mp.pcs)
         o == Head(mp.related)
     IN \/ \* the oracle call throws
           /\ mp' = MpNextPair(mp, [new |-> n, old |-> o, type |-> "threw",
                                    has |-> FALSE, error |-> "oracle"])
           /\ improves' = improves
        \/ \E result \in ClassifyAnswers, ok \in BOOLEAN :
             LET pend == ImprovementOf(result)
                 e == IF IsImprovement(result)
                      THEN ImprovementError(n, o, pend.type, pend.confidence, ok)
                      ELSE "notcalled"
             IN /\ ~IsImprovement(result) =>
                     (ok /\ result.improvement_category = "" /\ result.confidence = 0)
                /\ improves' = IF e = "none"
                               THEN improves
                                      \cup {NewImprovement(n, o, pend.type, pend.confidence)}
                               ELSE improves
                /\ mp' = MpNextPair(mp, [new |-> n, old |-> o,
                                         type |-> result.relationship_type,
                                         has |-> result.has_relationship, error |-> e])
  /\ UNCHANGED <<helperVars, rd, papers, rows, links, agentVars, batchVars, walkVars, report, ex, task>>

\* three concepts, two of them introduced by paper p1, and possibly the
\* edge 1 improves 2 of an earlier call
MapRows == {r \in ValidateRows : r.id <= 3}

InitMap ==
  /\ papers = PaperIds
  /\ rows = [k \in Kinds |-> IF k = "concept" THEN MapRows ELSE {}]
  /\ links = [k \in Kinds |->
                IF k = "concept"
                THEN {[id |-> r.id, paper_id |-> IF r.id <= 2 THEN "p1" ELSE "p2",
                       entity_id |-> r.id, confidence |-> r.confidence] : r \in MapRows}
                ELSE {}]
  /\ improves \in {{}, {[id |-> 1, new_concept |-> 1, old_concept |-> 2,
                         improvement_type |-> "quality",
                         confidence |-> DefaultImprovementConfidence]}}
  /\ wk = [w \in Workers |-> IdleWk]
  /\ runs = 0
  /\ faults = 0
  /\ units = <<>>
  /\ settled = <<>>
  /\ batch = "idle"
  /\ registered = "repository"
  /\ extractFails = {}
  /\ throwOnTimeout = FALSE
  /\ exitCode = "none"
  /\ walk = IdleWalk
  /\ graph = NoGraph
  /\ report = NoReport
  /\ ex = NoRun
  /\ mp = NoRun
  /\ task = NoRun
  /\ norm = NoRun
  /\ chunk = NoRun
  /\ rd = NoRun

NextMap ==
  \/ MpStart
  \/ MpRelated
  \/ MpPair

SpecMap == InitMap /\ [][NextMap]_vars

(***************************************************************************)
(* SpecTask: calls of Agent.executeTask, one after another; execute makes  *)
(* calls of the oracle and of the citation-graph fetcher.                  *)
(*   task : pc ("created", "execute", "calling", "returned", "rethrown");  *)
(*          run, the number of the executeTask call; status, the status    *)
(*          field of the task object createTask returned; versions, the    *)
(*          statuses of the task objects createTask and updateTask have    *)
(*          returned (and logged), in order, and error, the error field of *)
(*          the last of them; thrown, the message of the error execute     *)
(*          threw; calls, the external calls execute has made; call, the   *)
(*          call in flight: kind, attempts made, delays slept between      *)
(*          them, state ("trying", "succeeded", "surfaced": it threw,      *)
(*          "swallowed": it returned an empty answer)                      *)
(***************************************************************************)
\* calls of executeTask in one behaviour, external calls of one execute
MaxTasks == 2
MaxCalls == 2

\* retryWithBackoff(fn, 3, 1000) in LLMClient.complete
RetryAttempts == 3
BaseDelay == 1000

\* the external calls: LLMClient.complete and the fetcher's getPaper,
\* getReferences and getCitations
CallKinds == {"complete", "getPaper", "getReferences", "getCitations"}

\* the attempts a call of this kind makes before it gives up: complete runs
\* inside retryWithBackoff, the fetcher calls axios.get once
AttemptsOf(kind) == IF kind = "complete" THEN RetryAttempts ELSE 1

RECURSIVE Pow2(_)
Pow2(n) == IF n = 0 THEN 1 ELSE 2 * Pow2(n - 1)

\* const delay = baseDelay * Math.pow(2, attempt - 1)
BackoffDelay(attempt) == BaseDelay * Pow2(attempt - 1)

\* how a call that gave up ends: getReferences and getCitations catch the
\* error and return [], complete and getPaper throw it
GivesUpAs(kind) ==
  IF kind \in {"getReferences", "getCitations"} THEN "swallowed" ELSE "surfaced"

NoCall == [kind |-> "none", attempts |-> 0, delays |-> <<>>, state |-> "none"]

\* messages of the errors execute throws
ErrorMessages == {"Missing required field: paperId", "Request failed with status code 429"}

\* the status updateTask is called with once execute has ended
TerminalStatus_AlwaysCompleted(outcome) == "completed"
TerminalStatus(outcome) == IF outcome = "returned" THEN "completed" ELSE "failed"

\* const task = await this.createTask(input)
createTask ==
  /\ task.pc \in {"idle", "returned", "rethrown"}
  /\ task.pc # "idle" => task.run < MaxTasks
  /\ task' = [pc |-> "created", run |-> IF task.pc = "idle" THEN 1 ELSE task.run + 1,
              status |-> "pending", versions |-> <<"pending">>, error |-> "",
              thrown |-> "", calls |-> 0, call |-> NoCall]
  /\ UNCHANGED <<helperVars, rd, storeVars, agentVars, batchVars, walkVars, report, ex, mp>>

\* await this.updateTask(task, { status: 'processing' }): the updated copy is
\* returned and logged, the object task is left as it is
updateProcessing ==
  /\ task.pc = "created"
  /\ task' = [task EXCEPT !.pc = "execute", !.versions = Append(@, "processing")]
  /\ UNCHANGED <<helperVars, rd, storeVars, agentVars, batchVars, walkVars, report, ex, mp>>

\* execute starts a call of the oracle or of the fetcher
CallStart ==
  /\ task.pc = "execute"
  /\ task.calls < MaxCalls
  /\ \E kind \in CallKinds :
       task' = [task EXCEPT !.pc = "calling", !.calls = @ + 1,
                            !.call = [kind |-> kind, attempts |-> 0, delays |-> <<>>,
                                      state |-> "trying"]]
  /\ UNCHANGED <<helperVars, rd, storeVars, agentVars, batchVars, walkVars, report, ex, mp>>

\* one attempt of the call in flight: it succeeds, or fails transiently and
\* is followed by a sleep and another attempt or by giving up
CallAttempt ==
  /\ task.pc = "calling"
  /\ task.call.state = "trying"
  /\ \E ok \in BOOLEAN :
       LET c == task.call
           attempt == c.attempts + 1
       IN task' = [task EXCEPT !.call =
                     IF ok THEN [c EXCEPT !.attempts = attempt, !.state = "succeeded"]
                     ELSE IF attempt = AttemptsOf(c.kind)
                     THEN [c EXCEPT !.attempts = attempt, !.state = GivesUpAs(c.kind)]
                     ELSE [c EXCEPT !.attempts = attempt,
                                    !.delays = Append(c.delays, BackoffDelay(attempt))]]
  /\ UNCHANGED <<helperVars, rd, storeVars, agentVars, batchVars, walkVars, report, ex, mp>>

\* the call has ended and execute goes on; an error the call threw is caught
\* by the agent (the extractor and the mapper do) or leaves execute (the
\* reader's does)
CallEnds ==
  /\ task.pc = "calling"
  /\ task.call.state # "trying"
  /\ \E caught \in BOOLEAN :
       /\ task.call.state # "surfaced" => caught
       /\ task' = IF caught THEN [task EXCEPT !.pc = "execute"]
                  ELSE [task EXCEPT
                          !.pc = "rethrown",
                          !.thrown = "Request failed with status code 429",
                          !.versions = Append(@, TerminalStatus("threw")),
                          !.error = IF TerminalStatus("threw") = "failed"
                                    THEN "Request failed with status code 429" ELSE ""]
  /\ UNCHANGED <<helperVars, rd, storeVars, agentVars, batchVars, walkVars, report, ex, mp>>

\* execute returns: updateTask(task, { status: 'completed', result }) and
\* return result
executeReturns ==
  /\ task.pc = "execute"
  /\ task' = [task EXCEPT !.pc = "returned",
                          !.versions = Append(@, TerminalStatus("returned"))]
  /\ UNCHANGED <<helperVars, rd, storeVars, agentVars, batchVars, walkVars, report, ex, mp>>

\* execute throws from its own code (validateInput): the catch calls
\* updateTask(task, { status: 'failed', error: error.message }) and rethrows
executeThrows ==
  /\ task.pc = "execute"
  /\ task.calls = 0
  /\ task' = [task EXCEPT
                !.pc = "rethrown",
                !.thrown = "Missing required field: paperId",
                !.versions = Append(@, TerminalStatus("threw")),
                !.error = IF TerminalStatus("threw") = "failed"
                          THEN "Missing required field: paperId" ELSE ""]
  /\ UNCHANGED <<helperVars, rd, storeVars, agentVars, batchVars, walkVars, report, ex, mp>>

InitTask ==
  /\ StoreInit
  /\ wk = [w \in Workers |-> IdleWk]
  /\ runs = 0
  /\ faults = 0
  /\ units = <<>>
  /\ settled = <<>>
  /\ batch = "idle"
  /\ registered = "repository"
  /\ extractFails = {}
  /\ throwOnTimeout = FALSE
  /\ exitCode = "none"
  /\ walk = IdleWalk
  /\ graph = NoGraph
  /\ report = NoReport
  /\ ex = NoRun
  /\ mp = NoRun
  /\ task = NoRun
  /\ norm = NoRun
  /\ chunk = NoRun
  /\ rd = NoRun

NextTask ==
  \/ createTask
  \/ updateProcessing
  \/ CallStart
  \/ CallAttempt
  \/ CallEnds
  \/ executeReturns
  \/ executeThrows

SpecTask == InitTask /\ [][NextTask]_vars

(***************************************************************************)
(* SpecNormalize: normalizeEntityName applied to a name and again to its   *)
(* own result, as disambiguateEntities and storeEntities do with a key     *)
(* read back from the store.                                               *)
(*   norm : pc ("input", "normalized", "renormalized"); name, the input;   *)
(*          once and twice, the results of the first and second call       *)
(***************************************************************************)
\* longest name normalized
MaxNameLen == 4

\* the characters names are made of: an upper-case and a lower-case letter,
\* a digit, a space, a hyphen and a character that is none of these
NameChars == {"G", "g", "3", " ", "-", "."}

Names == UNION {[1..n -> NameChars] : n \in 0..MaxNameLen}

\* const normalized = normalizeEntityName(concept.name)
NormalizeName ==
  /\ norm.pc = "input"
  /\ norm' = [norm EXCEPT !.pc = "normalized", !.once = normalizeEntityName(norm.name)]
  /\ UNCHANGED <<storeVars, agentVars, batchVars, walkVars, checkVars, chunk, rd>>

\* normalizeEntityName applied to the stored key
Renormalize ==
  /\ norm.pc = "normalized"
  /\ norm' = [norm EXCEPT !.pc = "renormalized", !.twice = normalizeEntityName(norm.once)]
  /\ UNCHANGED <<storeVars, agentVars, batchVars, walkVars, checkVars, chunk, rd>>

InitNormalize ==
  /\ StoreInit
  /\ wk = [w \in Workers |-> IdleWk]
  /\ runs = 0
  /\ faults = 0
  /\ units = <<>>
  /\ settled = <<>>
  /\ batch = "idle"
  /\ registered = "repository"
  /\ extractFails = {}
  /\ throwOnTimeout = FALSE
  /\ exitCode = "none"
  /\ walk = IdleWalk
  /\ graph = NoGraph
  /\ report = NoReport
  /\ ex = NoRun
  /\ mp = NoRun
  /\ task = NoRun
  /\ norm \in {[pc |-> "input", name |-> n, once |-> <<>>, twice |-> <<>>] : n \in Names}
  /\ chunk = NoRun
  /\ rd = NoRun

NextNormalize ==
  \/ NormalizeName
  \/ Renormalize

SpecNormalize == InitNormalize /\ [][NextNormalize]_vars

(***************************************************************************)
(* SpecChunk: chunkText(text, maxChunkSize, overlap), one step per         *)
(* iteration of its loop.  The text is modelled by its length.             *)
(*   chunk : pc ("loop", "returned"); len, max, overlap, the length of the *)
(*           text and the two sizes; start, the loop variable; n, the      *)
(*           number of chunks pushed, counted up to MaxChunks; longest,    *)
(*           the length of the longest chunk; covered, the positions of    *)
(*           the text that are in some chunk                               *)
(***************************************************************************)
\* longest text, largest maxChunkSize, and the count at which n stops
MaxTextLen == 5
MaxChunkSize == 3
MaxChunks == 4

Min(a, b) == IF a < b THEN a ELSE b
Max(a, b) == IF a > b THEN a ELSE b

\* the positions text.slice(start, end) takes, for 0 <= end <= len: a
\* negative start counts from the end of the text, and not below position 0
Slice(len, start, end) ==
  LET from == IF start < 0 THEN Max(len + start, 0) ELSE Min(start, len)
  IN (from + 1)..end

\* while (start < text.length)
LoopTest(c) == c.start < c.len

\* const end = Math.min(start + maxChunkSize, text.length);
\* chunks.push(text.slice(start, end)); start = end - overlap
ChunkStep ==
  /\ chunk.pc = "loop"
  /\ LoopTest(chunk)
  /\ LET end == Min(chunk.start + chunk.max, chunk.len)
         slice == Slice(chunk.len, chunk.start, end)
     IN chunk' = [chunk EXCEPT !.start = end - chunk.overlap,
                               !.n = Min(@ + 1, MaxChunks),
                               !.longest = Max(@, Cardinality(slice)),
                               !.covered = @ \cup slice]
  /\ UNCHANGED <<storeVars, agentVars, batchVars, walkVars, checkVars, norm, rd>>

\* return chunks
ChunkReturns ==
  /\ chunk.pc = "loop"
  /\ ~LoopTest(chunk)
  /\ chunk' = [chunk EXCEPT !.pc = "returned"]
  /\ UNCHANGED <<storeVars, agentVars, batchVars, walkVars, checkVars, norm, rd>>

\* the calls the claim is about: maxChunkSize > overlap >= 0
ChunkInputs ==
  {[pc |-> "loop", len |-> l, max |-> m, overlap |-> o,
    start |-> 0, n |-> 0, longest |-> 0, covered |-> {}] :
     l \in 0..MaxTextLen, m \in 1..MaxChunkSize, o \in 0..(MaxChunkSize - 1)}

InitChunk ==
  /\ StoreInit
  /\ wk = [w \in Workers |-> IdleWk]
  /\ runs = 0
  /\ faults = 0
  /\ units = <<>>
  /\ settled = <<>>
  /\ batch = "idle"
  /\ registered = "repository"
  /\ extractFails = {}
  /\ throwOnTimeout = FALSE
  /\ exitCode = "none"
  /\ walk = IdleWalk
  /\ graph = NoGraph
  /\ report = NoReport
  /\ ex = NoRun
  /\ mp = NoRun
  /\ task = NoRun
  /\ norm = NoRun
  /\ chunk \in {c \in ChunkInputs : c.max > c.overlap}
  /\ rd = NoRun

NextChunk ==
  \/ ChunkStep
  \/ ChunkReturns

\* the loop is synchronous code: an iteration that can run does run
SpecChunk == InitChunk /\ [][NextChunk]_vars /\ WF_vars(ChunkStep) /\ WF_vars(ChunkReturns)

(***************************************************************************)
(* SpecRead: the reader stage of the pipeline over the papers table.  The  *)
(* traversal stores papers (storePaper), executeFullPipeline submits what  *)
(* the traversal returned, a caller may submit an identifier of its own    *)
(* (orchestratePaperProcessing), and parsePaper handles the submissions in *)
(* order.  An identifier is a record [ns, n]: paper n in the name space    *)
(* "arxiv" (arXiv id), "ss" (citation-network id) or "uuid" (the row's     *)
(* primary key, generated by the store).  rd.log keeps, for every handled  *)
(* submission, who made it, whether a row carried the identifier then, and *)
(* how parsePaper ended.                                                   *)
(***************************************************************************)
\* papers the citation network knows
MaxCatalogue == 2
\* submissions a caller makes on its own
MaxReads == 3

Catalogue == 1..MaxCatalogue

\* papers that are on arXiv (externalIds.ArXiv is set)
OnArxiv == {1}

Null == [ns |-> "null", n |-> 0]

\* id UUID PRIMARY KEY DEFAULT uuid_generate_v4()
Uuid(n) == [ns |-> "uuid", n |-> n]

\* paperData.externalIds?.ArXiv
ArxivIdOf(n) == IF n \in OnArxiv THEN [ns |-> "arxiv", n |-> n] ELSE Null

\* paperData.paperId
SsIdOf(n) == [ns |-> "ss", n |-> n]

\* the identifiers a caller has for a paper
ExternalIds == {SsIdOf(n) : n \in Catalogue} \cup ({ArxivIdOf(n) : n \in Catalogue} \ {Null})

\* the row insertPaper creates for paper n
NewPaperRow(n) ==
  [id |-> Uuid(n), arxiv_id |-> ArxivIdOf(n), semantic_scholar_id |-> SsIdOf(n),
   pdf_text |-> FALSE, writes |-> 0]

\* .eq('arxiv_id', arxivId).single(): the rows that match
getPaperByArxivId(table, id) == {r \in table : r.arxiv_id = id}

\* .eq('semantic_scholar_id', ssId).single(): the rows that match
getPaperBySemanticScholarId(table, id) == {r \in table : r.semantic_scholar_id = id}

\* .update({ pdf_text: pdfText }).eq('id', paperId)
updatePaperText(table, id) ==
  {IF r.id = id THEN [r EXCEPT !.pdf_text = TRUE, !.writes = @ + 1] ELSE r : r \in table}

\* getPaperByArxivId(paperId) || getPaperBySemanticScholarId(paperId)
FindPaper(table, id) ==
  IF getPaperByArxivId(table, id) # {} THEN getPaperByArxivId(table, id)
  ELSE getPaperBySemanticScholarId(table, id)

\* some row carries the identifier, in whichever column
IsStored(table, id) ==
  \E r \in table : id \in {r.id, r.arxiv_id, r.semantic_scholar_id}

IdleRead == [pc |-> "traversal", table |-> {}, found |-> <<>>, pending |-> <<>>,
             direct |-> 0, log |-> <<>>]

\* fetchRelatedPapers: storePaper inserts paper n and the row joins the
\* list the traversal returns
StoreFetched(n) ==
  /\ rd.pc = "traversal"
  /\ \A i \in 1..Len(rd.found) : rd.found[i].id # Uuid(n)
  /\ rd' = [rd EXCEPT !.table = @ \cup {NewPaperRow(n)},
                      !.found = Append(@, NewPaperRow(n))]
  /\ UNCHANGED <<storeVars, agentVars, batchVars, walkVars, checkVars, helperVars>>

\* executeFullPipeline: paperIds = papers.map(p => p.id);
\* processPapersBatch(paperIds)
SubmitTraversal ==
  /\ rd.pc = "traversal"
  /\ rd.found # <<>>
  /\ rd' = [rd EXCEPT !.pc = "processing",
                      !.pending = @ \o [i \in 1..Len(rd.found) |->
                                          [id |-> rd.found[i].id, origin |-> "pipeline"]]]
  /\ UNCHANGED <<storeVars, agentVars, batchVars, walkVars, checkVars, helperVars>>

\* orchestratePaperProcessing(paperId) called with an identifier the caller
\* has for the paper
SubmitDirect(id) ==
  /\ rd.pc # "idle"
  /\ rd.direct < MaxReads
  /\ rd' = [rd EXCEPT !.direct = @ + 1,
                      !.pending = Append(@, [id |-> id, origin |-> "caller"])]
  /\ UNCHANGED <<storeVars, agentVars, batchVars, walkVars, checkVars, helperVars>>

\* parsePaper(paperId) for the oldest submission.  pdfOk: downloadPDFIfNeeded
\* and analyzePaper succeed; updateOk: updatePaperText succeeds.
parsePaper(pdfOk, updateOk) ==
  /\ rd.pc # "idle"
  /\ rd.pending # <<>>
  /\ LET sub == Head(rd.pending)
         paper == FindPaper(rd.table, sub.id)
         hasArxiv == paper # {} /\ \E r \in paper : r.arxiv_id # Null
         wrote == hasArxiv /\ pdfOk /\ updateOk
         outcome == IF paper = {} THEN "not_found"
                    ELSE IF wrote THEN "full_text"
                    ELSE "metadata"
     IN /\ ~hasArxiv => pdfOk /\ updateOk
        /\ ~pdfOk => updateOk
        /\ rd' = [rd EXCEPT
                    !.pending = Tail(@),
                    !.table = IF wrote
                              THEN updatePaperText(@, (CHOOSE r \in paper : TRUE).id)
                              ELSE @,
                    !.log = Append(@, [id |-> sub.id, origin |-> sub.origin,
                                       stored |-> IsStored(rd.table, sub.id),
                                       outcome |-> outcome])]
  /\ UNCHANGED <<storeVars, agentVars, batchVars, walkVars, checkVars, helperVars>>

InitRead ==
  /\ StoreInit
  /\ wk = [w \in Workers |-> IdleWk]
  /\ runs = 0
  /\ faults = 0
  /\ units = <<>>
  /\ settled = <<>>
  /\ batch = "idle"
  /\ registered = "repository"
  /\ extractFails = {}
  /\ throwOnTimeout = FALSE
  /\ exitCode = "none"
  /\ walk = IdleWalk
  /\ graph = NoGraph
  /\ report = NoReport
  /\ ex = NoRun
  /\ mp = NoRun
  /\ task = NoRun
  /\ norm = NoRun
  /\ chunk = NoRun
  /\ rd = IdleRead

NextRead ==
  \/ \E n \in Catalogue : StoreFetched(n)
  \/ SubmitTraversal
  \/ \E id \in ExternalIds : SubmitDirect(id)
  \/ \E pdfOk, updateOk \in BOOLEAN : parsePaper(pdfOk, updateOk)

SpecRead == InitRead /\ [][NextRead]_vars

(***************************************************************************)
(* Properties of Spec.                                                     *)
(***************************************************************************)
\* C1: after any interleaving of EntityExtractorAgent.execute runs the store
\* never holds two concept rows, nor two method rows, with the same
\* normalized_name.
NoDuplicateNormalizedName ==
  \A kind \in {"concept", "method"} :
    \A r, s \in rows[kind] : r.key = s.key => r = s

\* two runs for different papers raced on one absent key, no store call
\* failed in transport, both have returned, and one row carries the key
RacedOnOneKey ==
  /\ faults = 0
  /\ \A w \in Workers : wk[w].pc = "idle" /\ wk[w].job = "extract"
  /\ wk["w1"].paper # wk["w2"].paper
  /\ \E k \in wk["w1"].fresh \cap wk["w2"].fresh :
       /\ Cardinality({r \in rows["concept"] : r.key = k}) = 1
       /\ Cardinality(links["concept"]) = 1

\* C2: when two workers run storeEntities at once for two different papers
\* that share a normalized key not yet stored, the store ends with exactly
\* one row for the key and BOTH papers hold a PaperIntroducesConcept edge to
\* it.
BothRacersLinked ==
  \A k \in wk["w1"].fresh \cap wk["w2"].fresh :
    ( /\ faults = 0
      /\ \A w \in Workers : wk[w].pc = "idle" /\ wk[w].job = "extract"
      /\ wk["w1"].paper # wk["w2"].paper )
    => /\ Cardinality({r \in rows["concept"] : r.key = k}) = 1
       /\ \A w \in Workers :
            \E r \in rows["concept"], l \in links["concept"] :
              r.key = k /\ l.entity_id = r.id /\ l.paper_id = wk[w].paper

\* a step of storeEntities taken by a run that found every entity it can
\* persist already stored and linked to its paper
ReRunStep(w) ==
  /\ wk[w].pc \in StorePcs
  /\ wk[w].already
  /\ wk'[w] # wk[w]

EdgeKindsUnique ==
  \A kind \in Kinds :
    \A l, m \in links[kind] :
      (l.paper_id = m.paper_id /\ l.entity_id = m.entity_id) => l = m

\* C3: re-running execute on a paper whose entities are all stored and
\* linked adds no row and no edge (the store is left as it was), and every
\* edge kind stays unique per endpoint pair.
ReRunLeavesStore ==
  /\ [][\A w \in Workers : ReRunStep(w) => storeVars' = storeVars]_vars
  /\ []EdgeKindsUnique

\* a re-run had its link rejected by the uniqueness of the edge and goes on
\* with its next entity
ReRunLinkRejected ==
  \E w \in Workers :
    /\ wk[w].already
    /\ wk[w].paper \in papers
    /\ wk[w].err = "unique"
    /\ wk[w].pc = "store_get"
    /\ faults = 0

RECURSIVE ImprovedFrom(_)
\* the concepts reachable from the set S along ConceptImproves edges (new -> old)
ImprovedFrom(S) ==
  LET step == S \cup {e.old_concept : e \in {f \in improves : f.new_concept \in S}}
  IN IF step = S THEN S ELSE ImprovedFrom(step)

\* C4: the ConceptImproves graph (new -> old) has no directed cycle after any
\* runs of the mapper with any oracle answers.
ImprovesAcyclic ==
  \A e \in improves : e.new_concept \notin ImprovedFrom({e.old_concept})

\* C5: no ConceptImproves edge from a concept to itself is ever created.
NoSelfImprovement ==
  \A e \in improves : e.new_concept # e.old_concept

\* the mapper has written an improvement and is about to write another
MapperWroteImprovement ==
  /\ improves # {}
  /\ \E w \in Workers : wk[w].pc = "map_create"

\* C6: every edge ends at rows that exist (and every concept's provenance is
\* a paper that exists), also when individual store calls fail.
NoDanglingEdges ==
  /\ \A kind \in Kinds : \A l \in links[kind] :
       /\ l.paper_id \in papers
       /\ \E r \in rows[kind] : r.id = l.entity_id
  /\ \A e \in improves :
       /\ \E r \in rows["concept"] : r.id = e.new_concept
       /\ \E r \in rows["concept"] : r.id = e.old_concept
  /\ \A r \in rows["concept"] : r.provenance \in papers

\* after a transport error and a stored edge, a write for a paper that is
\* not in the store was rejected by the foreign key
GhostWriteRejected ==
  /\ faults > 0
  /\ links["concept"] # {}
  /\ \E w \in Workers : wk[w].paper = GhostPaper /\ wk[w].err = "fk"

ReuseLeavesRow ==
  [][ /\ \A k \in Kinds : rows[k] \subseteq rows'[k]
      /\ \A w \in Workers :
           (wk[w].pc = "store_link" /\ wk'[w] # wk[w]) =>
             LET item == Head(wk[w].todo)
                 added == [k \in Kinds |-> links'[k] \ links[k]]
             IN /\ rows' = rows
                /\ improves' = improves
                /\ papers' = papers
                /\ \A k \in Kinds : links[k] \subseteq links'[k]
                /\ \A k \in Kinds \ {item.kind} : added[k] = {}
                /\ Cardinality(added[item.kind]) <= 1
                /\ \A l \in added[item.kind] :
                     /\ l.paper_id = wk[w].paper
                     /\ \E r \in rows[item.kind] :
                          r.id = l.entity_id /\ r.key = KeyOf(item.kind, item.ent) ]_vars

\* a row first inserted by one paper is linked to another paper as well, and
\* still carries the provenance of the first
LaterPaperLinkedToFirstRow ==
  /\ \A w \in Workers : wk[w].pc = "idle"
  /\ \E k \in Kinds : \E r \in rows[k] : \E l1, l2 \in links[k] :
       /\ l1.entity_id = r.id /\ l1.paper_id = r.provenance
       /\ l2.entity_id = r.id /\ l2.paper_id # r.provenance

(***************************************************************************)
(* Properties of SpecBatch.                                                *)
(***************************************************************************)
\* C8: processPapersBatch never rejects and returns exactly one settled
\* result per submitted paper; when one paper's pipeline throws, every other
\* paper's pipeline has still been started and has run to its own completion
\* or failure.
BatchSettlesEveryPaper ==
  /\ batch # "rejected"
  /\ batch = "returned" =>
       /\ Len(settled) = BatchSize
       /\ \A i \in 1..BatchSize :
            /\ settled[i] \in Final
            /\ units[i].promise = settled[i]
            /\ units[i].pc # "queued"
            /\ units[i].expiredIn = "none" => units[i].pc = settled[i]

\* the batch returned although the first paper's pipeline threw, and a paper
\* that was still queued at that time ran all its stages
SiblingsOutliveFailure ==
  /\ batch = "returned"
  /\ settled[1] = "rejected"
  /\ settled[BatchSize] = "fulfilled"

Count(status) == Cardinality({i \in DOMAIN settled : settled[i] = status})

\* C9: in a batch of 5 papers, all in the store, where the extraction call
\* of exactly paper #3 always fails, the result reports 4 succeeded and 1
\* failed and the other four papers have their entities persisted.
FailureIsolation ==
  ( /\ batch = "returned"
    /\ registered = "repository"
    /\ extractFails = {3}
    /\ \A i \in DOMAIN units : units[i].expiredIn = "none"
    /\ \A i \in DOMAIN units : units[i].log[1].outcome = "returned" )
  => /\ Count("fulfilled") = 4
     /\ Count("rejected") = 1
     /\ \A i \in DOMAIN units : i # 3 => units[i].persisted

\* C10: each paper's stages run in the order reader, extractor, mapper,
\* validator, each only after the previous one returned; once a stage throws
\* no later stage runs for the paper and its unit is rejected.
PipelineInOrder ==
  \A i \in DOMAIN units :
    LET log == units[i].log
    IN /\ Len(log) <= Len(StageOrder)
       /\ \A k \in 1..Len(log) : log[k].stage = StageOrder[k]
       /\ \A k \in 1..(Len(log) - 1) : log[k].outcome = "returned"
       /\ (\E k \in 1..Len(log) : log[k].outcome = "threw") => units[i].pc = "rejected"
       /\ units[i].pc \in Stages => units[i].pc = StageOrder[Len(log) + 1]
       /\ units[i].pc = "fulfilled" => Len(log) = Len(StageOrder)
       /\ units[i].pc = "queued" => log = <<>>

\* one paper ran all four stages and another was rejected when its mapper
\* stage threw
StageThrewMidPipeline ==
  \E i, j \in DOMAIN units :
    /\ units[i].pc = "fulfilled"
    /\ units[j].pc = "rejected"
    /\ Len(units[j].log) = 3

\* C11: at every moment of a batch run the number of paper pipelines that
\* have started and not yet finished is at most max_concurrent_agents, also
\* after some unit has hit its timeout.
PipelinesInFlightBounded ==
  Cardinality({i \in DOMAIN units : units[i].pc \in Stages}) <= MaxConcurrentAgents

\* C12: when a unit exceeds the per-unit timeout, its remaining stages do
\* not run (only the stage that was awaited may still end), the unit is
\* recorded as failed in the batch result, and no other unit is cancelled.
TimeoutCancelsUnit ==
  \A i \in DOMAIN units :
    units[i].expiredIn # "none" =>
      /\ Len(units[i].log) <= StageIndex(units[i].expiredIn)
      /\ units[i].promise = "rejected"
      /\ \A j \in DOMAIN units \ {i} :
           units[j].promise \in Final => units[j].promise = units[j].pc

\* C13: main exits with code 0 when every paper's unit of work succeeded and
\* with a nonzero code when at least one paper's unit of work failed.
ExitCodeTellsFailure ==
  (batch = "returned" /\ exitCode # "none") =>
    (exitCode = "0" <=> \A i \in DOMAIN settled : settled[i] = "fulfilled")

\* C32: whenever the reader stage returns for a paper, what it returned has
\* the fields the extractor stage requires (paperId, title, abstract); hence
\* for a paper in the store, when the oracle and every store call succeed
\* (and no timeout fires), orchestratePaperProcessing runs its four stages
\* and returns status 'completed'.
ReaderFeedsExtractor ==
  registered = "repository" =>
    \A i \in DOMAIN units :
      (units[i].log # <<>> /\ units[i].log[1] = [stage |-> "reader", outcome |-> "returned"])
      => /\ validateInput(StageInput("extractor"), RequiredFields("extractor"))
         /\ (units[i].pc \in Final /\ i \notin extractFails /\ units[i].expiredIn = "none")
            => (units[i].pc = "fulfilled" /\ Len(units[i].log) = Len(StageOrder))

\* C37: when every external call returns or fails in the end,
\* processPapersBatch returns, and the fulfilled and the rejected results it
\* reports add up to the number of papers submitted.
BatchReturnsWithEveryResult ==
  (batch = "running") ~>
    (batch = "returned" /\ Count("fulfilled") + Count("rejected") = BatchSize)

\* a batch has returned with results of both kinds, one of them of a unit
\* whose timeout had fired
MixedBatchReturned ==
  /\ batch = "returned"
  /\ Count("fulfilled") > 0
  /\ Count("rejected") > 0
  /\ \E i \in DOMAIN units : units[i].expiredIn # "none"

(***************************************************************************)
(* Properties of SpecWalk.                                                 *)
(***************************************************************************)
\* C14: for every seed, limit >= 0 and graph, and whatever the fetcher and
\* the store return, the traversal started through execute({seedPaper,
\* limit}) holds at most limit papers and fetches no references or citations
\* once limit papers have been yielded.
WalkWithinLimit ==
  walk.pc # "idle" =>
    /\ Len(walk.papers) <= walk.limit
    /\ \A n \in walk.expandedAt : n < walk.limit

\* C15: a failing fetch of one paper drops that node and the traversal goes
\* on with the rest of the frontier: fetchRelatedPapers does not throw and
\* the papers already yielded are not lost.
WalkSurvivesFetchFailure ==
  walk.pc # "threw"

\* C16: over one graph snapshot, with the same seed and limit and no failing
\* call, the second run of the traversal, which finds the papers of the
\* first in the store, returns the same papers in the same order.
WalkDeterministic ==
  (walk.pc = "returned" /\ walk.run = 2 /\ walk.clean) => walk.papers = walk.first

\* the second run returned three papers that the first run had stored
SecondWalkReturned ==
  /\ walk.pc = "returned"
  /\ walk.run = 2
  /\ walk.clean
  /\ Len(walk.first) = 3
  /\ \A k \in 1..Len(walk.first) : walk.first[k] \in papers

\* candidate i of q goes before candidate j: more citations, or as many and
\* found earlier
Beats(q, i, j) ==
  \/ graph.count[q[i]] > graph.count[q[j]]
  \/ graph.count[q[i]] = graph.count[q[j]] /\ i < j

\* the position in q of the candidate that k - 1 candidates go before
RankedAt(q, k) ==
  CHOOSE i \in 1..Len(q) : Cardinality({j \in 1..Len(q) : Beats(q, j, i)}) = k - 1

\* C17: an expansion queues the top N unvisited related papers in descending
\* citation count, ties in the order found, and papers are yielded in the
\* order queued: a seed with 8 references of counts 10, 9, ..., 3 and limit 3
\* yields exactly the seed, the reference with count 10 and the one with 9.
TopCitedQueuedFirst ==
  /\ walk.pc # "idle" =>
       /\ Len(walk.pushed) = (IF Len(walk.cands) < TopN THEN Len(walk.cands) ELSE TopN)
       /\ \A k \in 1..Len(walk.pushed) :
            walk.pushed[k] = walk.cands[RankedAt(walk.cands, k)]
  /\ (graph = StarGraph /\ walk.pc = "returned" /\ walk.limit = 3 /\ walk.clean)
       => walk.papers = <<1, 3, 5>>

\* the traversal of the 8-reference seed with limit 3 returned three papers,
\* three of the five references it had queued being left in the frontier
StarWalkReturned ==
  /\ graph = StarGraph
  /\ walk.pc = "returned"
  /\ walk.run = 1
  /\ walk.limit = 3
  /\ walk.clean
  /\ Len(walk.papers) = 3
  /\ Len(walk.queue) = 3

\* the rows of walk.papers are pairwise different
NoRowTwice(q) == \A i, j \in 1..Len(q) : q[i] = q[j] => i = j

\* C33: the list one traversal returns never holds the same stored paper
\* twice, also when a paper is reached under two identifiers (the seed given
\* by its arXiv id and found again under its citation-network id).
WalkYieldsNoPaperTwice ==
  walk.pc # "idle" => NoRowTwice(walk.papers)

\* the same for traversals whose seed is given by its citation-network id
WalkYieldsNoPaperTwiceBySsId ==
  (walk.pc # "idle" /\ walk.seed > 0) => NoRowTwice(walk.papers)

\* C34: on every finite citation graph, for every seed and limit,
\* fetchRelatedPapers terminates, also when every store write fails or every
\* paper is reported not found.
WalkTerminates ==
  (walk.pc = "loop") ~> (walk.pc \in {"returned", "threw"})

\* the frontier of the model's graphs stays below the bound of the model
QueueBelowBound ==
  walk.pc # "idle" => Len(walk.queue) < MaxQueue

\* a traversal over the graph with a cycle returned nothing after it had
\* fetched every paper once while every store write failed
WalkReturnedWithStoreDown ==
  /\ graph = TiedGraph
  /\ walk.pc = "returned"
  /\ walk.mode = "down"
  /\ walk.papers = <<>>
  /\ {PaperOf(id) : id \in walk.visited} = 1..4

(***************************************************************************)
(* Properties of SpecValidate.                                             *)
(***************************************************************************)
RECURSIVE ReachableFrom(_, _)
\* the concepts reachable from the set S along the edges (new -> old)
ReachableFrom(edges, S) ==
  LET step == S \cup {e.old_concept : e \in {g \in edges : g.new_concept \in S}}
  IN IF step = S THEN S ELSE ReachableFrom(edges, step)

HasDirectedCycle(edges) ==
  \E e \in edges : e.new_concept \in ReachableFrom(edges, {e.old_concept})

\* the run that gave the report read the edges
ReadTheEdges ==
  /\ report.ran
  /\ report.outcome = "returned"
  /\ report.reads["linkCounts"] # "throw"
  /\ report.reads["edges"] = "data"

\* the first n edges of the chain 1 improves 2, 2 improves 3, 3 improves 1,
\* inserted in that order
ChainPrefix(edges, n) ==
  /\ Cardinality(edges) = n
  /\ \A e \in edges :
       /\ e.id <= n
       /\ e.new_concept = e.id
       /\ e.old_concept = (e.id % ConceptCount) + 1

\* C18: a validation run (of any paper) that read the improvement edges
\* reports a circular_improvement conflict if and only if the edges of the
\* whole table contain a directed cycle; with 1 -> 2, 2 -> 3, 3 -> 1 inserted
\* in that order a run after the first or second insertion reports none and
\* a run after the third reports one.
CycleReportedIffCycle ==
  ReadTheEdges =>
    /\ (report.circular > 0) <=> HasDirectedCycle(report.edges)
    /\ \A n \in 1..2 : ChainPrefix(report.edges, n) => report.circular = 0
    /\ ChainPrefix(report.edges, 3) => report.circular > 0

\* a run after the third insertion of the chain reported the cycle
CycleReportedAfterThirdEdge ==
  /\ ReadTheEdges
  /\ ChainPrefix(improves, 3)
  /\ report.edges = improves
  /\ report.circular > 0

\* C19: a call of ValidatorAgent.execute leaves papers, entities and edges
\* with all their attributes as they were, whatever it finds.
ValidateLeavesStore ==
  [][report' # report => storeVars' = storeVars]_vars

\* a run that found a cycle and an inconsistency, on the store it read
ValidatedStoreWithViolations ==
  /\ ReadTheEdges
  /\ report.reads = AllReads("data")
  /\ report.circular > 0
  /\ ~report.consistency
  /\ report.edges = improves

\* C20: called with paperId, entities and relationships, execute returns a
\* report and does not throw, also when every store read fails.
ValidatorNeverThrows ==
  (report.ran /\ validateInput(report.input, RequiredFields("validator")))
    => report.outcome = "returned"

\* a run all of whose reads threw returned a report
ReturnedWithEveryReadFailed ==
  /\ report.ran
  /\ report.reads = AllReads("throw")
  /\ report.outcome = "returned"
  /\ ~report.isValid

\* C21: the validity flag of a returned report is false if and only if more
\* than 5 duplicate entries were reported or the consistency check failed; a
\* detected improvement cycle alone leaves it true.
ValidityFlagExact ==
  (report.ran /\ report.outcome = "returned") =>
    /\ ~report.isValid <=> (report.duplicates > 5 \/ ~report.consistency)
    /\ (report.circular > 0 /\ report.duplicates <= 5 /\ report.consistency)
         => report.isValid

\* a run that found a cycle and exactly 5 duplicates reported a valid graph
CycleAndFiveDuplicatesValid ==
  /\ report.ran
  /\ report.outcome = "returned"
  /\ report.circular > 0
  /\ report.duplicates = 5
  /\ report.consistency
  /\ report.isValid

\* an edge of concept_improves_concept that checkConsistency is to reject
BadImprovement(e) ==
  \/ ~ConceptRowExists(e.new_concept) \/ ~ConceptRowExists(e.old_concept)
  \/ e.confidence < 0 \/ e.confidence > 100
  \/ e.new_concept = e.old_concept

\* a paper_introduces_concept link that checkConsistency is to reject
BadConceptLink(l) ==
  ~ConceptRowExists(l.entity_id) \/ l.confidence < 0 \/ l.confidence > 100

\* C30: checkConsistency returns false exactly when the validated paper is
\* not in the store, or one of its concept links names a missing concept or
\* has a confidence outside [0,1], or some improvement edge of the whole
\* table names a missing concept, has a confidence outside [0,1] or is a
\* self-improvement, or one of its store reads throws.
ConsistencyExact ==
  (report.ran /\ report.outcome = "returned") =>
    (~report.consistency <=>
       \/ report.paperId \notin papers
       \/ \E l \in links["concept"] : l.paper_id = report.paperId /\ BadConceptLink(l)
       \/ \E e \in report.edges : BadImprovement(e)
       \/ \E r \in {"paper", "conceptLinks", "improvements"} : report.reads[r] = "throw")

(***************************************************************************)
(* Properties of SpecExtract.                                              *)
(***************************************************************************)
\* C22: when the oracle call of Pass 1 fails (retries used up, or an answer
\* that does not parse) execute does not throw: Pass 1 yields empty
\* collections, Pass 2, Pass 3 and storeEntities run on them, the store is
\* left as it was and the empty result is returned.
OracleFailureGivesEmptyResult ==
  [][(ex'.pc # "idle" /\ ex'.passes # <<>> /\ ex'.oracle # "answer") =>
       /\ ex'.pc # "threw"
       /\ ex'.pass1 = EmptyEntities
       /\ storeVars' = storeVars
       /\ ex'.pc = "returned" =>
            /\ ex'.passes = <<"pass1", "pass2", "pass3", "store">>
            /\ ex'.pass3 = EmptyEntities
            /\ ex'.log = <<>>]_vars

\* a call whose oracle call timed out has returned, on a store that holds
\* the entities of an earlier call
ReturnedAfterOracleTimeout ==
  /\ ex.pc = "returned"
  /\ ex.oracle = "timeout"
  /\ ex.run = 2
  /\ rows["concept"] # {}

\* validateAndScore has returned in the call under observation
ScoredEntities == ex.pc \in {"store", "link", "returned"}

\* C23: every concept and every method that validateAndScore keeps has a
\* confidence in [0,1], whatever confidences the oracle gave.
SurvivorsConfidenceInRange ==
  ScoredEntities =>
    /\ \A i \in 1..Len(ex.pass3.concepts) :
         ex.pass3.concepts[i].confidence >= 0 /\ ex.pass3.concepts[i].confidence <= 100
    /\ \A i \in 1..Len(ex.pass3.methods) :
         ex.pass3.methods[i].confidence >= 0 /\ ex.pass3.methods[i].confidence <= 100

\* name and description of the entities of a list, in order
NamedAs(q) == [i \in 1..Len(q) |-> <<q[i].name, q[i].description>>]

\* has a name, a description and a confidence not below 0.5
HasNameDescriptionConfidence(e) ==
  e.name # <<>> /\ e.description # 0 /\ ~(e.confidence < 50)

HasNameDescription(e) == e.name # <<>> /\ e.description # 0

\* C26: validateAndScore keeps exactly the concepts and the methods that
\* have a name, a description and a confidence of at least 0.5, and exactly
\* the datasets that have a name and a description.
ScoreKeepsExactly ==
  ScoredEntities =>
    /\ NamedAs(ex.pass3.concepts)
         = NamedAs(SelectSeq(ex.pass2.concepts, HasNameDescriptionConfidence))
    /\ NamedAs(ex.pass3.methods)
         = NamedAs(SelectSeq(ex.pass2.methods, HasNameDescriptionConfidence))
    /\ NamedAs(ex.pass3.datasets)
         = NamedAs(SelectSeq(ex.pass2.datasets, HasNameDescription))

\* C27: an entity that storeEntities fails to persist or to link does not
\* end the call: every validated entity of the paper is attempted, and
\* execute does not throw.
StoreFailureSkipsOneEntity ==
  /\ (ex.pc # "idle" /\ ex.passes # <<>>) => ex.pc # "threw"
  /\ ex.pc = "returned" => Len(ex.log) = Len(WorkItems(ex.pass3))
  /\ ex.pc \in {"store", "link"} =>
       Len(ex.log) + Len(ex.todo) = Len(WorkItems(ex.pass3))

\* the first entity of a call failed and the second was stored and linked
SecondStoredAfterFirstFailed ==
  /\ ex.pc = "returned"
  /\ Len(ex.log) = 2
  /\ ex.log[1] # "none"
  /\ ex.log[2] = "none"

(***************************************************************************)
(* Properties of SpecMap.                                                  *)
(***************************************************************************)
\* C28: an improvement edge is created for a classified pair only if the
\* oracle's result for that pair has relationship type improves_on; a result
\* of type extends, uses, evaluates or none creates no edge.
OnlyImprovesOnCreatesEdge ==
  [][improves' # improves =>
       LET last == mp'.log[Len(mp'.log)]
       IN /\ Len(mp'.log) = Len(mp.log) + 1
          /\ last.type = "improves_on"
          /\ last.type \notin {"extends", "uses", "evaluates", "none"}
          /\ \E e \in improves' :
               /\ improves' = improves \cup {e}
               /\ e.new_concept = last.new
               /\ e.old_concept = last.old]_vars

\* a pair with a relationship of type extends was passed over and a later
\* pair of type improves_on got its edge
EdgeOnlyForImprovesOn ==
  /\ mp.pc = "returned"
  /\ \E i, j \in 1..Len(mp.log) :
       /\ i < j
       /\ mp.log[i].type = "extends" /\ mp.log[i].has /\ mp.log[i].error = "notcalled"
       /\ mp.log[j].type = "improves_on" /\ mp.log[j].error = "none"
       /\ \E e \in improves :
            e.new_concept = mp.log[j].new /\ e.old_concept = mp.log[j].old

\* the pairs mapImprovements is to classify for the paper
PairsOf(paperId) ==
  {<<n, o>> : n \in ConceptsByPaper(paperId), o \in {r.id : r \in rows["concept"]}}
    \ {<<n, n>> : n \in ConceptsByPaper(paperId)}

\* C29: a pair whose classification throws or whose edge the store rejects
\* is skipped: every other pair of the paper is still classified and
\* execute does not throw.
PairFailureSkipsOnePair ==
  /\ (mp.pc # "idle" /\ mp.pc = "threw") => mp.log = <<>>
  /\ (mp.pc = "returned" /\ mp.queried) =>
       /\ {<<mp.log[i].new, mp.log[i].old>> : i \in 1..Len(mp.log)} = PairsOf(mp.paper)
       /\ Len(mp.log) = Cardinality(PairsOf(mp.paper))

\* the oracle call of the first pair threw, the edge of the second was
\* rejected as already existing, and the two remaining pairs were classified
LaterPairsClassifiedAfterFailures ==
  /\ mp.pc = "returned"
  /\ mp.queried
  /\ Len(mp.log) = 4
  /\ mp.log[1].error = "oracle"
  /\ mp.log[2].error = "unique"
  /\ mp.log[4].error = "none"

(***************************************************************************)
(* Properties of SpecTask.                                                 *)
(***************************************************************************)
\* the call in flight has failed at least once and has ended
EndedAfterFailure ==
  /\ task.pc # "idle"
  /\ task.call.state \in {"succeeded", "surfaced", "swallowed"}
  /\ task.call.attempts > 1 \/ task.call.state # "succeeded"

\* C24: an oracle call or a fetcher call that fails transiently is attempted
\* again, after 1000 ms, then 2000 ms, until it succeeds or 3 attempts have
\* been made, never more than 3 times, and after the last failed attempt
\* its error is thrown to the caller.
TransientFailureRetried ==
  /\ task.pc # "idle" => task.call.attempts <= 3
  /\ EndedAfterFailure =>
       /\ task.call.state = "succeeded" \/ task.call.attempts = 3
       /\ task.call.state # "succeeded" => task.call.state = "surfaced"
       /\ \A i \in 1..Len(task.call.delays) : task.call.delays[i] = 1000 * Pow2(i - 1)
       /\ Len(task.call.delays) = task.call.attempts - 1

Canonical(s) ==
  /\ \A i \in 1..Len(s) : s[i] \in {"g", "s", "n", "3", "-"}
  /\ s # <<>> => (s[1] # "-" /\ s[Len(s)] # "-")
  /\ \A i \in 1..(Len(s) - 1) : ~(s[i] = "-" /\ s[i + 1] = "-")

\* C38: normalizeEntityName is idempotent and canonical: its result holds
\* only lower-case letters, digits and single hyphens, with no hyphen first
\* or last, and normalizing the result again gives the same result.
NormalizeIdempotentCanonical ==
  /\ norm.pc \in {"normalized", "renormalized"} => Canonical(norm.once)
  /\ norm.pc = "renormalized" => norm.twice = norm.once

\* a name with an upper-case letter and a run of two separators has been
\* normalized twice
RenormalizedMessyName ==
  /\ norm.pc = "renormalized"
  /\ norm.name = <<"G", " ", "-", "3">>
  /\ norm.once = <<"g", "-", "3">>

(***************************************************************************)
(* Properties of SpecChunk.                                                *)
(***************************************************************************)
\* C39: for every text and every maxChunkSize > overlap >= 0, chunkText
\* terminates: it returns, and what it returns are chunks of at most
\* maxChunkSize characters that together cover the whole text.
ChunkTextTerminates ==
  <>(/\ chunk.pc = "returned"
     /\ chunk.longest <= chunk.max
     /\ chunk.covered = 1..chunk.len)

\* the same for the calls without overlap
ChunkTextTerminatesWithoutOverlap ==
  chunk.overlap = 0 => ChunkTextTerminates
(***************************************************************************)
(* Properties of SpecRead.                                                 *)
(***************************************************************************)
\* C31: every identifier that executeFullPipeline takes from the traversal
\* result and submits is one by which parsePaper finds the stored paper: no
\* submission of the pipeline ends as not found in the database.
PipelineSubmissionFound ==
  \A i \in 1..Len(rd.log) :
    rd.log[i].origin = "pipeline" => rd.log[i].outcome # "not_found"

\* a submission by an identifier of a stored paper that a caller has (its
\* arXiv id or its citation-network id) is found
ExternalIdOfStoredFound ==
  \A i \in 1..Len(rd.log) :
    (rd.log[i].origin = "caller" /\ rd.log[i].stored)
      => rd.log[i].outcome # "not_found"

\* C35: the full text of a paper is attached at most once: no row's
\* pdf_text is written a second time, however often the paper is processed.
FullTextAttachedOnce ==
  \A r \in rd.table : r.writes <= 1

\* a paper has been processed and its full text attached
FullTextAttached ==
  \E r \in rd.table : r.pdf_text /\ r.writes = 1

====
